---- MODULE Spec2Model ----
(***************************************************************************)
(* A model of the engine core of tg_bot_engine: the entity lock manager,   *)
(* the transactional executors, the persistent entity store over its       *)
(* repository, the raid service and the saga orchestrator.                 *)
(*                                                                         *)
(* Entity ids are modelled as the naturals 1..NumIds; the numeric order    *)
(* stands for the lexicographic order sorted() uses on the id strings.     *)
(* Python dictionaries are functions whose DOMAIN is the set of keys.      *)
(***************************************************************************)
EXTENDS Integers, Sequences, FiniteSets, TLC

(***************************************************************************)
(* Bounds of the model.                                                    *)
(***************************************************************************)
\* callers of the lock manager (acquire / release / clear_unused_locks)
NumCallers == 3
\* callers in the study of the acquisition order
NumOrderCallers == 2
\* commands submitted to an executor
NumCommands == 2
NumIds == 2
MaxLockObjs == 3
\* largest _version a caller writes
MaxVersion == 2
\* steps of a saga
NumSteps == 3
\* max_hp of the raid
RaidHp == 3
\* concurrent attack_raid calls
NumAttackers == 2

\* RaidService.MAX_RETRY_ATTEMPTS
MAX_RETRY_ATTEMPTS == 5

Ids == 1..NumIds

VARIABLES
    lockOf,     \* EntityLockManager._locks: id -> lock object (0: no entry)
    lk,         \* the asyncio.Lock objects: locked flag, waiter queue
    nLocks,     \* number of asyncio.Lock objects created so far
    pc,         \* position of each task
    deps,       \* entity_ids argument of each task's acquire call
    idx,        \* index of the id acquire is working on (in sorted order)
    acquired,   \* the local list `acquired` of each acquire call
    waitOn,     \* the lock object a blocked task waits on (0: none)
    err,        \* exception an acquire call ended with ("none": none)
    via,        \* who runs the tasks: "lock" (callers of the lock manager),
                \* "async" (AsyncCommandExecutor), "sync" (TransactionalExecutor)
    cmd,        \* the command a task submits to an executor
    result,     \* the CommandResult a task got back (done: it has one)
    entities,   \* GameState._entities
    entities0,  \* the store the run started with (history)
    final_results,  \* the list execute_batch returned (<<>>: not yet)
    repo,       \* the repository's table: id -> row [data, version]
    stores,     \* the PersistentGameState objects over the repository:
                \* _entities, _loaded_entities, auto_flush
    call,       \* the last call on a store, with the state it found (history)
    raidState,  \* RaidService._state: its kind, _entities, _loaded_entities
    raidCache,  \* RaidService._raid_cache: raid id -> RaidEntity
    attackers,  \* the attack_raid calls: arguments, retry_count, AttackResult
    saga,       \* a Saga: its steps, its context, the position of execute
    sagaState,  \* the entities of the GameState handed to Saga.execute
    sagaPre,    \* the entities before Saga.execute (history)
    sagaLog,    \* the calls of step actions and compensations, in order
    dicts,      \* the dict objects transactions work with: object -> entities
    stateRef,   \* the dict object that is GameState._entities
    tx,         \* the Transaction objects: flags, _snapshot, work state
    txCall,     \* the last call on a transaction or a work state
    banners,    \* BannerManager._banners: banner id -> status
    active_banner_id,   \* BannerManager._active_banner_id ("None": none)
    default_banner_id,  \* BannerManager._default_banner_id ("None": none)
    scheduled,  \* the scheduler's pending one-time tasks of flash banners
    bus,        \* an EventBus: _subscribers and _event_history
    pub,        \* the last publish call: its event, the handlers it called
    sch,        \* a SchedulerService: _tasks, _running, _task_counter, shutdown()
    coro,       \* the asyncio tasks: wrapper, callback, position, cancel request
    now         \* the clock of the event loop

lockVars == <<lockOf, lk, nLocks, pc, deps, idx, acquired, waitOn, err>>
execVars == <<via, cmd, result, entities, entities0, final_results>>
storeVars == <<repo, stores, call>>
\* what the lock manager and the executors never touch
raidVars == <<raidState, raidCache, attackers>>
sagaVars == <<saga, sagaState, sagaPre, sagaLog>>
txVars == <<dicts, stateRef, tx, txCall>>
bannerVars == <<banners, active_banner_id, default_banner_id, scheduled>>
eventVars == <<bus, pub>>
schedVars == <<sch, coro, now>>
notExec == <<storeVars, raidVars, sagaVars, txVars, bannerVars, eventVars, schedVars>>
vars == <<lockVars, execVars, notExec>>

\* the tasks of a run
Tasks == DOMAIN pc

(***************************************************************************)
(* Dictionaries.                                                           *)
(***************************************************************************)
Put(m, k, v) == [x \in (DOMAIN m) \cup {k} |-> IF x = k THEN v ELSE m[x]]

Del(m, k) == [x \in (DOMAIN m) \ {k} |-> m[x]]

\* the elements of a sequence
Range(seq) == {seq[i]: i \in DOMAIN seq}

EmptyMap == [x \in {} |-> 0]

(***************************************************************************)
(* sorted(entity_ids): insertion sort into ascending id order.             *)
(***************************************************************************)
RECURSIVE Insert(_, _)
Insert(x, s) ==
    IF s = <<>> THEN <<x>>
    ELSE IF x <= Head(s) THEN <<x>> \o s
    ELSE <<Head(s)>> \o Insert(x, Tail(s))

RECURSIVE Sorted(_)
Sorted(s) == IF s = <<>> THEN <<>> ELSE Insert(Head(s), Sorted(Tail(s)))

\* a plausible slip: the ids are locked in the order the caller gave them
UnsortedIds(entity_ids) == entity_ids

\* locks.py, acquire: sorted_ids = sorted(entity_ids)
SortedIds(entity_ids) == Sorted(entity_ids)

(***************************************************************************)
(* asyncio.Lock.  A lock object is [locked, waiters, woken]: waiters is    *)
(* the FIFO queue of blocked acquirers and woken says that the future of   *)
(* the first waiter has been given its result by release() while that      *)
(* waiter has not run yet (the lock is unlocked in between).               *)
(***************************************************************************)
FreshLock == [locked |-> FALSE, waiters |-> <<>>, woken |-> FALSE]

\* asyncio.Lock.release() on a locked lock: unlock, wake the first waiter
Unlock(l) == [l EXCEPT !.locked = FALSE, !.woken = (l.waiters # <<>>)]

RemoveWaiter(s, t) == SelectSeq(s, LAMBDA x: x # t)

\* the strict loop of the timeout handler (locks.py 64-65):
\*   for acquired_id in acquired: self._locks[acquired_id].release()
\* it stops at the first exception; the result is the locks and the exception
RECURSIVE ReleaseStrict(_, _, _)
ReleaseStrict(L, map, ids) ==
    IF ids = <<>> THEN [L |-> L, exc |-> "none"]
    ELSE LET id == Head(ids) IN
         IF map[id] = 0 THEN [L |-> L, exc |-> "KeyError"]
         ELSE IF ~L[map[id]].locked THEN [L |-> L, exc |-> "RuntimeError"]
         ELSE ReleaseStrict([L EXCEPT ![map[id]] = Unlock(@)], map, Tail(ids))

\* the loop of the outer handler (locks.py 74-76):
\*   for acquired_id in acquired:
\*       if acquired_id in self._locks: self._locks[acquired_id].release()
RECURSIVE ReleaseIfPresent(_, _, _)
ReleaseIfPresent(L, map, ids) ==
    IF ids = <<>> THEN [L |-> L, exc |-> "none"]
    ELSE LET id == Head(ids) IN
         IF map[id] = 0 THEN ReleaseIfPresent(L, map, Tail(ids))
         ELSE IF ~L[map[id]].locked THEN [L |-> L, exc |-> "RuntimeError"]
         ELSE ReleaseIfPresent([L EXCEPT ![map[id]] = Unlock(@)], map, Tail(ids))

\* EntityLockManager.release (locks.py 79-91): a RuntimeError is swallowed
RECURSIVE ReleaseAll(_, _, _)
ReleaseAll(L, map, ids) ==
    IF ids = <<>> THEN L
    ELSE LET id == Head(ids) IN
         IF map[id] # 0 /\ L[map[id]].locked
         THEN ReleaseAll([L EXCEPT ![map[id]] = Unlock(@)], map, Tail(ids))
         ELSE ReleaseAll(L, map, Tail(ids))

\* what acquire does when wait_for times out (locks.py 62-77)
TimeoutCleanup(L, map, ids) ==
    LET inner == ReleaseStrict(L, map, ids)
        outer == ReleaseIfPresent(inner.L, map, ids)
    IN [L |-> outer.L,
        exc |-> IF outer.exc # "none" THEN outer.exc
                ELSE IF inner.exc # "none" THEN inner.exc
                ELSE "TimeoutError"]

\* position of a task whose acquire has taken the id at index i
AfterTaking(t, i) == IF i >= Len(deps[t]) THEN "holding" ELSE "acquiring"

(***************************************************************************)
(* EntityLockManager.acquire, one id per step (locks.py 51-61).  The       *)
(* entry is created under _main_lock, which is never held across a         *)
(* suspension, and a free lock is taken without suspending.                *)
(***************************************************************************)
AcquireStep(t) ==
    /\ pc[t] = "acquiring"
    /\ LET id == SortedIds(deps[t])[idx[t]]
           fresh == lockOf[id] = 0
           o == IF fresh THEN nLocks + 1 ELSE lockOf[id]
       IN /\ fresh => nLocks < MaxLockObjs
          /\ lockOf' = [lockOf EXCEPT ![id] = o]
          /\ nLocks' = IF fresh THEN nLocks + 1 ELSE nLocks
          /\ IF ~lk[o].locked /\ lk[o].waiters = <<>>
             THEN /\ lk' = [lk EXCEPT ![o].locked = TRUE]
                  /\ acquired' = [acquired EXCEPT ![t] = Append(@, id)]
                  /\ idx' = [idx EXCEPT ![t] = @ + 1]
                  /\ pc' = [pc EXCEPT ![t] = AfterTaking(t, idx[t])]
                  /\ UNCHANGED waitOn
             ELSE /\ lk' = [lk EXCEPT ![o].waiters = Append(@, t)]
                  /\ waitOn' = [waitOn EXCEPT ![t] = o]
                  /\ pc' = [pc EXCEPT ![t] = "waiting"]
                  /\ UNCHANGED <<acquired, idx>>
    /\ UNCHANGED <<deps, err, execVars, notExec>>

\* a blocked acquirer whose future was given its result takes the lock
AcquireWake(t) ==
    /\ pc[t] = "waiting"
    /\ LET o == waitOn[t]
           id == SortedIds(deps[t])[idx[t]]
       IN /\ lk[o].woken
          /\ Head(lk[o].waiters) = t
          /\ lk' = [lk EXCEPT ![o] = [locked |-> TRUE,
                                      waiters |-> Tail(lk[o].waiters),
                                      woken |-> FALSE]]
          /\ acquired' = [acquired EXCEPT ![t] = Append(@, id)]
          /\ idx' = [idx EXCEPT ![t] = @ + 1]
          /\ pc' = [pc EXCEPT ![t] = AfterTaking(t, idx[t])]
          /\ waitOn' = [waitOn EXCEPT ![t] = 0]
    /\ UNCHANGED <<lockOf, nLocks, deps, err, execVars, notExec>>

\* wait_for gives up: the waiter leaves the queue (passing on a wake-up it
\* was given), the handlers release and the call raises (locks.py 62-77)
AcquireTimeout(t) ==
    /\ pc[t] = "waiting"
    /\ LET o == waitOn[t]
           wasWoken == lk[o].woken /\ Head(lk[o].waiters) = t
           rest == RemoveWaiter(lk[o].waiters, t)
           L1 == [lk EXCEPT ![o].waiters = rest,
                            ![o].woken = IF wasWoken THEN rest # <<>> ELSE @]
           c == TimeoutCleanup(L1, lockOf, acquired[t])
       IN /\ lk' = c.L
          /\ err' = [err EXCEPT ![t] = c.exc]
    /\ pc' = [pc EXCEPT ![t] = "raised"]
    /\ waitOn' = [waitOn EXCEPT ![t] = 0]
    /\ UNCHANGED <<lockOf, nLocks, deps, idx, acquired, execVars, notExec>>

\* a caller of the lock manager releases what its acquire returned
Release(t) ==
    /\ via = "lock"
    /\ pc[t] = "holding"
    /\ lk' = ReleaseAll(lk, lockOf, acquired[t])
    /\ pc' = [pc EXCEPT ![t] = "done"]
    /\ UNCHANGED <<lockOf, nLocks, deps, idx, acquired, waitOn, err, execVars, notExec>>

\* EntityLockManager.clear_unused_locks (locks.py 128-145)
ClearUnusedLocks ==
    /\ \E id \in Ids: lockOf[id] # 0 /\ ~lk[lockOf[id]].locked
    /\ lockOf' = [id \in Ids |->
                    IF lockOf[id] # 0 /\ ~lk[lockOf[id]].locked
                    THEN 0 ELSE lockOf[id]]
    /\ UNCHANGED <<lk, nLocks, pc, deps, idx, acquired, waitOn, err, execVars, notExec>>

(***************************************************************************)
(* The lock manager used directly by its callers.                          *)
(***************************************************************************)
\* id lists without repetition, in any order
DepLists == {s \in UNION {[1..n -> Ids] : n \in 1..NumIds} :
                \A i, j \in DOMAIN s: i # j => s[i] # s[j]}

NoCommand == [op |-> "none"]

NoResult == [done |-> FALSE]

\* a fresh EntityLockManager and the tasks T, each at the position start
InitLockPart(T, start) ==
    /\ lockOf = [id \in Ids |-> 0]
    /\ lk = [o \in 1..MaxLockObjs |-> FreshLock]
    /\ nLocks = 0
    /\ pc = [t \in T |-> start]
    /\ idx = [t \in T |-> 1]
    /\ acquired = [t \in T |-> <<>>]
    /\ waitOn = [t \in T |-> 0]
    /\ err = [t \in T |-> "none"]

\* no repository and no store over one
NoCall == [op |-> "none"]

IdleStore ==
    /\ repo = EmptyMap
    /\ stores = <<>>
    /\ call = NoCall

\* no saga
IdleSaga ==
    /\ saga = [kind |-> "idle"]
    /\ sagaState = EmptyMap
    /\ sagaPre = EmptyMap
    /\ sagaLog = <<>>

\* no raid service
IdleRaid ==
    /\ raidState = [kind |-> "idle"]
    /\ raidCache = EmptyMap
    /\ attackers = <<>>

\* no transaction opened by hand
IdleTx ==
    /\ dicts = <<>>
    /\ stateRef = 0
    /\ tx = <<>>
    /\ txCall = NoCall

\* no event bus
IdleEvents ==
    /\ bus = <<>>
    /\ pub = NoCall

\* no scheduler and no asyncio task
IdleSched ==
    /\ sch = <<>>
    /\ coro = <<>>
    /\ now = 0

\* no banner manager
IdleBanner ==
    /\ banners = EmptyMap
    /\ active_banner_id = "None"
    /\ default_banner_id = "None"
    /\ scheduled = {}

\* no lock manager in use and no executor
IdleExec ==
    /\ InitLockPart({}, "done")
    /\ deps = <<>>
    /\ via = "none"
    /\ cmd = <<>>
    /\ result = <<>>
    /\ entities = EmptyMap
    /\ entities0 = EmptyMap
    /\ final_results = <<>>

InitCallersWith(T, lists) ==
    /\ InitLockPart(T, "acquiring")
    /\ IdleStore
    /\ IdleRaid
    /\ IdleSaga
    /\ IdleTx
    /\ IdleBanner
    /\ IdleEvents
    /\ IdleSched
    /\ deps \in [T -> lists]
    /\ via = "lock"
    /\ cmd = [t \in T |-> NoCommand]
    /\ result = [t \in T |-> NoResult]
    /\ entities = EmptyMap
    /\ entities0 = EmptyMap
    /\ final_results = <<>>

InitCallers(T) == InitCallersWith(T, DepLists)

InitLock == InitCallers(1..NumCallers)

NextLock ==
    \/ \E t \in Tasks: AcquireStep(t)
    \/ \E t \in Tasks: AcquireWake(t)
    \/ \E t \in Tasks: AcquireTimeout(t)
    \/ \E t \in Tasks: Release(t)
    \/ ClearUnusedLocks

SpecLock == InitLock /\ [][NextLock]_vars

\* the caller t has returned from acquire with id in its list and has not
\* released it yet
Holds(t, id) == pc[t] = "holding" /\ \E i \in DOMAIN acquired[t]: acquired[t][i] = id

\* C3: at any moment at most one caller holds the lock of a given entity
\* id, under every interleaving of acquire, release and clear_unused_locks
MutualExclusion ==
    \A id \in Ids: \A t, u \in Tasks: (Holds(t, id) /\ Holds(u, id)) => t = u

(***************************************************************************)
(* Callers that only acquire and release (no clear_unused_locks).          *)
(***************************************************************************)
\* the callers are interchangeable: their id lists are drawn in one order
ListCode(s) == IF Len(s) = 0 THEN 0
               ELSE Len(s) * 1000 + s[1] * 100 + (IF Len(s) > 1 THEN s[2] * 10 ELSE 0)
                    + (IF Len(s) > 2 THEN s[3] ELSE 0)

InitOrder ==
    /\ InitCallers(1..NumOrderCallers)
    /\ \A t \in Tasks: t + 1 \in Tasks => ListCode(deps[t]) <= ListCode(deps[t + 1])

Progress ==
    \/ \E t \in Tasks: AcquireStep(t)
    \/ \E t \in Tasks: AcquireWake(t)
    \/ \E t \in Tasks: Release(t)

NextOrder ==
    \/ Progress
    \/ \E t \in Tasks: AcquireTimeout(t)

SpecOrder == InitOrder /\ [][NextOrder]_vars

Finished(t) == pc[t] \in {"done", "raised"}

\* t is blocked on a lock that u has taken and not released
WaitsFor(t, u) ==
    /\ pc[t] = "waiting"
    /\ ~Finished(u)
    /\ \E i \in DOMAIN acquired[u]: lockOf[acquired[u][i]] = waitOn[t]

RECURSIVE WaitChain(_, _, _)
WaitChain(t, u, n) ==
    \/ WaitsFor(t, u)
    \/ n > 0 /\ \E w \in Tasks: WaitsFor(t, w) /\ WaitChain(w, u, n - 1)

NoWaitCycle == \A t \in Tasks: ~WaitChain(t, t, Cardinality(Tasks))

\* every call has taken an initial part of its ids in ascending order
AscendingOrder ==
    \A t \in Tasks: acquired[t] = SubSeq(Sorted(deps[t]), 1, Len(acquired[t]))

\* C4: concurrent acquire calls over overlapping id sets, given in any
\* order, never wait on each other in a cycle and take their locks in
\* ascending id order; as long as a call has not returned, some call can go
\* on (take a lock, be woken, release) without a timeout breaking a wait
DeadlockFree ==
    /\ NoWaitCycle
    /\ AscendingOrder
    /\ (\E t \in Tasks: ~Finished(t)) => ENABLED Progress

\* two calls with the same two ids in opposite argument order have both
\* returned and released
CrossOrderCompleted ==
    \E t, u \in Tasks:
        /\ Len(deps[t]) = 2 /\ deps[u] = <<deps[t][2], deps[t][1]>>
        /\ pc[t] = "done" /\ pc[u] = "done"

(***************************************************************************)
(* Commands and transactions.  An entity is a record with a gold field     *)
(* and, for the entities the run starts with, a _version field; the store  *)
(* GameState._entities is a dictionary from ids to entities.               *)
(***************************************************************************)
Players == {1, 2}

InitialStores ==
    {[p \in {1} |-> [gold |-> 100, _version |-> 1]],
     [p \in {1, 2} |-> [gold |-> IF p = 1 THEN 100 ELSE 0, _version |-> 1]]}

GainAmounts == {50}

SpendAmounts == {60}

WriteAmounts == {7}

\* a command that writes an entity and then raises
Raised == {"ValueError", "KeyError", "RuntimeError"}

Commands ==
    [op: {"gain"}, player: Players, amount: GainAmounts, raises: {"none"}]
    \cup [op: {"spend"}, player: Players, amount: SpendAmounts, raises: {"none"}]
    \cup [op: {"write"}, player: {1}, amount: WriteAmounts, raises: Raised]

\* GameState.exists / get_entity / set_entity on a dictionary of entities;
\* get_entity is None where exists is false
Exists(S, id) == id \in DOMAIN S

GetEntity(S, id) == S[id]

SetEntity(S, id, data) == Put(S, id, data)

\* player.get("gold", 0) of a stored player, 0 for a player not stored
GoldOf(S, id) == IF id \in DOMAIN S THEN S[id].gold ELSE 0

\* the outcome of Command.execute on a work state: the work state it
\* leaves, the exception it raised, the data it returned, the gold it read
Outcome(W, exc, new_gold, has) ==
    [W |-> W, exc |-> exc, new_gold |-> new_gold, has |-> has]

\* a plausible slip: the new balance replaces the old one
GainGoldOverwrite(W, c) ==
    Outcome(SetEntity(W, c.player, [gold |-> c.amount]), "none", c.amount, 0)

\* GainGoldCommand.execute
GainGoldExecute(W, c) ==
    LET player == IF Exists(W, c.player) THEN GetEntity(W, c.player) ELSE [gold |-> 0]
        current_gold == player.gold
        new_gold == current_gold + c.amount
    IN Outcome(SetEntity(W, c.player, [player EXCEPT !.gold = new_gold]),
               "none", new_gold, current_gold)

\* a plausible slip: the balance is not checked
SpendGoldUnchecked(W, c) ==
    LET player == GetEntity(W, c.player)
    IN IF ~Exists(W, c.player) THEN Outcome(W, "KeyError", 0, 0)
       ELSE Outcome(SetEntity(W, c.player, [player EXCEPT !.gold = @ - c.amount]),
                    "none", player.gold - c.amount, player.gold)

\* SpendGoldCommand.execute
SpendGoldExecute(W, c) ==
    LET player == GetEntity(W, c.player)
    IN IF ~Exists(W, c.player) THEN Outcome(W, "KeyError", 0, 0)
       ELSE LET current_gold == player.gold
                new_gold == current_gold - c.amount
            IN IF current_gold < c.amount
               THEN Outcome(W, "ValueError", 0, current_gold)
               ELSE Outcome(SetEntity(W, c.player, [player EXCEPT !.gold = new_gold]),
                            "none", new_gold, current_gold)

\* a command of the caller's own: set_entity, then raise
WriteThenRaise(W, c) ==
    Outcome(SetEntity(W, c.player, [gold |-> c.amount]), c.raises, 0, 0)

\* command.execute(work_state)
Execute(W, c) ==
    IF c.op = "gain" THEN GainGoldExecute(W, c)
    ELSE IF c.op = "spend" THEN SpendGoldExecute(W, c)
    ELSE WriteThenRaise(W, c)

\* Transaction.__init__: the snapshot is a deep copy of the store
Snapshot(S) == S

\* Transaction.commit: the snapshot becomes the store
Commit(S, snapshot) == snapshot

\* a plausible slip: the work state is the store itself, not a copy of it
RollbackShared(S, snapshot) == snapshot

\* Transaction.rollback: the snapshot is dropped, the store is untouched
Rollback(S, snapshot) == S

\* the except clauses of the executors: exception -> error message prefix
ErrorOf(exc) ==
    IF exc = "ValueError" THEN "Validation error"
    ELSE IF exc = "KeyError" THEN "Entity not found"
    ELSE "Unexpected error"

\* CommandResult.success_result / error_result
SuccessResult(new_gold) ==
    [done |-> TRUE, success |-> TRUE, error |-> "None", new_gold |-> new_gold, has |-> 0]

ErrorResult(error, has) ==
    [done |-> TRUE, success |-> FALSE, error |-> error, new_gold |-> 0, has |-> has]

\* the body both executors share: transaction, execute, commit or rollback
\* (transaction.py 143-173, async_executor.py 59-89); the result is the
\* store it leaves and the CommandResult it returns
RunInTransaction(S, c) ==
    LET out == Execute(Snapshot(S), c)
    IN IF out.exc = "none"
       THEN [S |-> Commit(S, out.W), result |-> SuccessResult(out.new_gold)]
       ELSE [S |-> Rollback(S, out.W), result |-> ErrorResult(ErrorOf(out.exc), out.has)]

(***************************************************************************)
(* The executors.  AsyncCommandExecutor.execute takes the locks of the     *)
(* command's dependencies, runs the body without suspending and releases   *)
(* the locks; TransactionalExecutor.execute is the body alone.             *)
(***************************************************************************)
\* the body of AsyncCommandExecutor.execute under lock_entities, with the
\* release of the context manager's finally clause
AsyncExecute(t) ==
    /\ via = "async"
    /\ pc[t] = "holding"
    /\ LET r == RunInTransaction(entities, cmd[t])
       IN /\ entities' = r.S
          /\ result' = [result EXCEPT ![t] = r.result]
    /\ lk' = ReleaseAll(lk, lockOf, acquired[t])
    /\ pc' = [pc EXCEPT ![t] = "done"]
    /\ UNCHANGED <<lockOf, nLocks, deps, idx, acquired, waitOn, err, via, cmd, entities0, final_results, notExec>>

\* TransactionalExecutor.execute
SyncExecute(t) ==
    /\ via = "sync"
    /\ pc[t] = "ready"
    /\ LET r == RunInTransaction(entities, cmd[t])
       IN /\ entities' = r.S
          /\ result' = [result EXCEPT ![t] = r.result]
    /\ pc' = [pc EXCEPT ![t] = "done"]
    /\ UNCHANGED <<lockOf, lk, nLocks, deps, idx, acquired, waitOn, err, via, cmd, entities0, final_results, notExec>>

\* command.get_entity_dependencies() of the gold commands
Dependencies(c) == <<c.player>>

\* asyncio.gather(*tasks, return_exceptions=True) once every task has ended:
\* the results in the order of the tasks, an exception in the place of the
\* task that raised it
GatherResults ==
    [t \in Tasks |-> IF err[t] # "none" THEN [exception |-> err[t]] ELSE result[t]]

\* a plausible slip: the exceptions are left out of the list
SkipExceptions(results) ==
    SelectSeq(results, LAMBDA r: "exception" \notin DOMAIN r)

\* execute_batch, lines 109-117: exceptions become failed results
FinalResults(results) ==
    [i \in DOMAIN results |->
        IF "exception" \in DOMAIN results[i]
        THEN ErrorResult("Execution failed", 0)
        ELSE results[i]]

\* execute_batch returns when every execute of the batch has ended
ExecuteBatchReturn ==
    /\ via = "async"
    /\ final_results = <<>>
    /\ \A t \in Tasks: pc[t] \in {"done", "raised"}
    /\ final_results' = FinalResults(GatherResults)
    /\ UNCHANGED <<lockVars, via, cmd, result, entities, entities0, notExec>>

InitExec ==
    /\ via \in {"async", "sync"}
    /\ InitLockPart(1..NumCommands, IF via = "async" THEN "acquiring" ELSE "ready")
    /\ cmd \in [1..NumCommands -> Commands]
    /\ deps = [t \in 1..NumCommands |-> Dependencies(cmd[t])]
    /\ result = [t \in 1..NumCommands |-> NoResult]
    /\ entities \in InitialStores
    /\ IdleStore
    /\ IdleRaid
    /\ IdleSaga
    /\ IdleTx
    /\ IdleBanner
    /\ IdleEvents
    /\ IdleSched
    /\ entities0 = entities
    /\ final_results = <<>>

NextExec ==
    \/ \E t \in Tasks: AcquireStep(t)
    \/ \E t \in Tasks: AcquireWake(t)
    \/ \E t \in Tasks: AcquireTimeout(t)
    \/ \E t \in Tasks: AsyncExecute(t)
    \/ \E t \in Tasks: SyncExecute(t)

SpecExec == InitExec /\ [][NextExec]_vars

\* the tasks whose execute call has returned a CommandResult
Returned == {t \in Tasks: result[t].done}

\* C1: the step in which a command fails (its executor returns a failed
\* result after the command raised) leaves the entity map of the store
\* as it was: no write of the failed command is visible
FailureLeavesStore ==
    [][\A t \in Tasks:
         (~result[t].done /\ result'[t].done /\ ~result'[t].success)
             => entities' = entities]_vars

\* a command wrote an entity in its transaction, raised, and got a failed
\* result from either executor
FailedAfterWrite ==
    \E t \in Returned: cmd[t].op = "write" /\ ~result[t].success

\* what a returned command changed in the gold of its player
GoldChange(t) ==
    IF ~result[t].success THEN 0
    ELSE IF cmd[t].op = "gain" THEN cmd[t].amount
    ELSE IF cmd[t].op = "spend" THEN 0 - cmd[t].amount
    ELSE 0

RECURSIVE SumGoldChange(_)
SumGoldChange(T) ==
    IF T = {} THEN 0
    ELSE LET t == CHOOSE x \in T: TRUE IN GoldChange(t) + SumGoldChange(T \ {t})

\* the orders in which the tasks T can run one after the other
Orders(T) == {s \in [1..Cardinality(T) -> T]: \A i, j \in DOMAIN s: i # j => s[i] # s[j]}

\* the store and the results of running the commands of order one by one
RECURSIVE SerialRun(_, _, _)
SerialRun(S, R, order) ==
    IF order = <<>> THEN [S |-> S, R |-> R]
    ELSE LET r == RunInTransaction(S, cmd[Head(order)])
         IN SerialRun(r.S, [R EXCEPT ![Head(order)] = r.result], Tail(order))

\* C2: the commands that have returned from one AsyncCommandExecutor left
\* the store and got the results some serial order of them produces; every
\* GainGold that returned succeeded, and a player's gold is the initial
\* gold plus the amounts gained minus the amounts spent (no lost update)
Serialisable ==
    via = "async" =>
        /\ \E order \in Orders(Returned):
               LET run == SerialRun(entities0, [t \in Tasks |-> NoResult], order)
               IN /\ run.S = entities
                  /\ \A t \in Returned: run.R[t] = result[t]
        /\ \A t \in Returned: cmd[t].op = "gain" => result[t].success
        /\ \A p \in Players:
               GoldOf(entities, p) = GoldOf(entities0, p)
                   + SumGoldChange({t \in Returned: cmd[t].player = p})

\* all commands are GainGold on one player, all have returned through the
\* AsyncCommandExecutor and at least two of them were submitted
AllGainsReturned ==
    /\ via = "async"
    /\ Returned = Tasks
    /\ \A t, u \in Tasks: cmd[t].op = "gain" /\ cmd[t].player = cmd[u].player

\* C5: with SpendGold commands running concurrently through one
\* AsyncCommandExecutor no player's gold goes below 0; a spend succeeds only
\* if the gold it found covers its amount and fails with a Validation error
\* only if it does not; two spend-60 commands, the only ones on a player
\* with 100 gold, end with exactly one success, one Validation error and 40
\* gold
NoOverdraft ==
    via = "async" =>
        /\ \A p \in DOMAIN entities: entities[p].gold >= 0
        /\ \A t \in Returned:
               cmd[t].op = "spend" =>
                   /\ result[t].success => result[t].new_gold >= 0
                   /\ result[t].error = "Validation error" => result[t].has < cmd[t].amount
        /\ \A t, u \in Returned:
               ( /\ t # u
                 /\ cmd[t].op = "spend" /\ cmd[t].amount = 60
                 /\ cmd[u] = cmd[t]
                 /\ GoldOf(entities0, cmd[t].player) = 100
                 /\ \A w \in Tasks \ {t, u}: cmd[w].player # cmd[t].player )
               => /\ result[t].success # result[u].success
                  /\ \A w \in {t, u}: ~result[w].success => result[w].error = "Validation error"
                  /\ GoldOf(entities, cmd[t].player) = 40

\* two spend-60 commands on a player with 100 gold have both returned
TwoSpendsReturned ==
    /\ via = "async"
    /\ \E t, u \in Returned:
           /\ t # u
           /\ cmd[t].op = "spend" /\ cmd[t].amount = 60 /\ cmd[u] = cmd[t]
           /\ GoldOf(entities0, cmd[t].player) = 100
           /\ \A w \in Tasks \ {t, u}: cmd[w].player # cmd[t].player

\* C8: every call of AsyncCommandExecutor.execute that has ended has given
\* its caller a CommandResult; no exception has crossed the executor
\* boundary, a lock timeout included
ExecuteAlwaysReturns ==
    \A t \in Tasks: (via = "async" /\ Finished(t)) => (result[t].done /\ err[t] = "none")

(***************************************************************************)
(* The repository and the persistent store.  A row of the repository is    *)
(* [data, version]: the JSON text of the entity and the version column.    *)
(* An entity is a dictionary with a gold key and possibly a "_version"     *)
(* key.  A dictionary handed to set_entity is the very object kept in      *)
(* memory, so what save() writes into it shows in memory as well.          *)
(***************************************************************************)
\* two PersistentGameState objects (sessions) over the one repository
Stores == {1, 2}

\* the entity ids the stores are asked about
StoreIds == {1}

\* the lists of ids handed to get_entities_bulk
BulkIds == {<<>>} \cup {<<id>>: id \in StoreIds}

GoldValues == {5, 6}

\* the dictionaries a caller hands to set_entity
EntityData ==
    [gold: GoldValues] \cup [gold: GoldValues, _version: 1..MaxVersion]

\* entity_data.get('_version', 1)
VersionOf(data) == IF "_version" \in DOMAIN data THEN data["_version"] ELSE 1

\* a plausible slip: the new version is stored but not written back into
\* the caller's dictionary
SaveNoWriteBack(R, entity_id, entity_data) ==
    LET current_version == VersionOf(entity_data)
    IN IF entity_id \notin DOMAIN R
       THEN [R |-> Put(R, entity_id, [data |-> entity_data, version |-> current_version]),
             data |-> entity_data, exc |-> "none"]
       ELSE IF R[entity_id].version # current_version
       THEN [R |-> R, data |-> entity_data, exc |-> "ValueError"]
       ELSE [R |-> Put(R, entity_id, [data |-> entity_data,
                                      version |-> current_version + 1]),
             data |-> entity_data, exc |-> "none"]

\* SQLiteRepository.save: the table it leaves, the caller's dictionary as
\* it leaves it, the exception it raises
Save(R, entity_id, entity_data) ==
    LET current_version == VersionOf(entity_data)
    IN IF entity_id \notin DOMAIN R
       THEN [R |-> Put(R, entity_id, [data |-> entity_data, version |-> current_version]),
             data |-> entity_data, exc |-> "none"]
       ELSE IF R[entity_id].version # current_version
       THEN [R |-> R, data |-> entity_data, exc |-> "ValueError"]
       ELSE LET new_version == current_version + 1
                written == Put(entity_data, "_version", new_version)
            IN [R |-> Put(R, entity_id, [data |-> written, version |-> new_version]),
                data |-> written, exc |-> "none"]

\* SQLiteRepository.load of a stored id
Load(R, entity_id) == Put(R[entity_id].data, "_version", R[entity_id].version)

\* PersistentGameState.get_entity: the store it leaves and what it returns
\* (found: FALSE stands for None)
StoreGetEntity(st, R, entity_id) ==
    IF entity_id \in DOMAIN st.entities
    THEN [st |-> st, found |-> TRUE, entity |-> st.entities[entity_id]]
    ELSE IF entity_id \notin st.loaded /\ entity_id \in DOMAIN R
    THEN [st |-> [st EXCEPT !.entities = Put(@, entity_id, Load(R, entity_id)),
                            !.loaded = @ \cup {entity_id}],
          found |-> TRUE, entity |-> Load(R, entity_id)]
    ELSE [st |-> st, found |-> FALSE, entity |-> EmptyMap]

\* the ids a lookup of entity_ids asks the repository for: those neither in
\* memory nor in _loaded_entities (missing_ids; for get_entity the one id)
MissingIds(st, entity_ids) ==
    SelectSeq(entity_ids, LAMBDA id: id \notin DOMAIN st.entities /\ id \notin st.loaded)

\* PersistentGameState.get_entities_bulk: the store it leaves and the
\* mapping it returns; load_bulk returns the stored ones of missing_ids
StoreGetEntitiesBulk(st, R, entity_ids) ==
    LET cached == {id \in Range(entity_ids): id \in DOMAIN st.entities}
        missing_ids == MissingIds(st, entity_ids)
        loaded == {id \in Range(missing_ids): id \in DOMAIN R}
    IN [st |-> [st EXCEPT !.entities = [id \in DOMAIN st.entities \cup loaded |->
                                           IF id \in loaded THEN Load(R, id)
                                           ELSE st.entities[id]],
                          !.loaded = @ \cup loaded],
        result |-> [id \in cached \cup loaded |->
                       IF id \in loaded THEN Load(R, id) ELSE st.entities[id]]]

\* PersistentGameState.set_entity: the store and the table it leaves, the
\* exception save() raised
StoreSetEntity(st, R, entity_id, data) ==
    LET versioned == IF "_version" \in DOMAIN data THEN data ELSE Put(data, "_version", 1)
        inMemory == [st EXCEPT !.entities = Put(@, entity_id, versioned),
                               !.loaded = @ \cup {entity_id}]
    IN IF ~st.auto_flush THEN [st |-> inMemory, R |-> R, exc |-> "none"]
       ELSE LET saved == Save(R, entity_id, versioned)
            IN [st |-> [inMemory EXCEPT !.entities = Put(@, entity_id, saved.data)],
                R |-> saved.R, exc |-> saved.exc]

\* PersistentGameState.exists: in memory, or a row of the repository
StoreExists(st, R, entity_id) ==
    entity_id \in DOMAIN st.entities \/ entity_id \in DOMAIN R

\* PersistentGameState.delete_entity
StoreDeleteEntity(st, R, entity_id) ==
    [st |-> [st EXCEPT !.entities = Del(@, entity_id), !.loaded = @ \ {entity_id}],
     R |-> IF st.auto_flush THEN Del(R, entity_id) ELSE R]

\* PersistentGameState.flush over the loaded ids in the order ids; it stops
\* at the first exception
RECURSIVE StoreFlush(_, _, _)
StoreFlush(st, R, ids) ==
    IF ids = <<>> THEN [st |-> st, R |-> R, exc |-> "none"]
    ELSE IF Head(ids) \notin DOMAIN st.entities THEN StoreFlush(st, R, Tail(ids))
    ELSE LET saved == Save(R, Head(ids), st.entities[Head(ids)])
         IN IF saved.exc # "none" THEN [st |-> st, R |-> R, exc |-> saved.exc]
            ELSE StoreFlush([st EXCEPT !.entities = Put(@, Head(ids), saved.data)],
                            saved.R, Tail(ids))

\* the version column stays within the bound of the model
VersionsBounded(R) == \A id \in DOMAIN R: R[id].version <= MaxVersion + 1

\* the record of a call on a store
Called(op, s, entity_id, data, exc) ==
    [op |-> op, store |-> s, id |-> entity_id, data |-> data, exc |-> exc,
     repoBefore |-> repo, entitiesBefore |-> stores[s].entities]

GetEntityCall(s, entity_id) ==
    /\ LET r == StoreGetEntity(stores[s], repo, entity_id)
       IN /\ stores' = [stores EXCEPT ![s] = r.st]
          /\ call' = Called("get", s, entity_id, r.entity, "none")
    /\ UNCHANGED <<repo, lockVars, execVars, raidVars, sagaVars, txVars, bannerVars, eventVars, schedVars>>

GetEntitiesBulkCall(s, entity_ids) ==
    /\ LET r == StoreGetEntitiesBulk(stores[s], repo, entity_ids)
       IN /\ stores' = [stores EXCEPT ![s] = r.st]
          /\ call' = Called("get_bulk", s, entity_ids, r.result, "none")
    /\ UNCHANGED <<repo, lockVars, execVars, raidVars, sagaVars, txVars, bannerVars, eventVars, schedVars>>

SetEntityCall(s, entity_id, data) ==
    /\ LET r == StoreSetEntity(stores[s], repo, entity_id, data)
       IN /\ VersionsBounded(r.R)
          /\ stores' = [stores EXCEPT ![s] = r.st]
          /\ repo' = r.R
          /\ call' = Called("set", s, entity_id, data, r.exc)
    /\ UNCHANGED <<lockVars, execVars, raidVars, sagaVars, txVars, bannerVars, eventVars, schedVars>>

DeleteEntityCall(s, entity_id) ==
    /\ LET r == StoreDeleteEntity(stores[s], repo, entity_id)
       IN /\ stores' = [stores EXCEPT ![s] = r.st]
          /\ repo' = r.R
          /\ call' = Called("delete", s, entity_id, EmptyMap, "none")
    /\ UNCHANGED <<lockVars, execVars, raidVars, sagaVars, txVars, bannerVars, eventVars, schedVars>>

FlushCall(s) ==
    /\ \E order \in Orders(stores[s].loaded):
          LET r == StoreFlush(stores[s], repo, order)
          IN /\ VersionsBounded(r.R)
             /\ stores' = [stores EXCEPT ![s] = r.st]
             /\ repo' = r.R
             /\ call' = Called("flush", s, 0, EmptyMap, r.exc)
    /\ UNCHANGED <<lockVars, execVars, raidVars, sagaVars, txVars, bannerVars, eventVars, schedVars>>

\* a transaction over the store s in which a command reads an entity, sets
\* its gold and writes it back, and which commits, as the executors run a
\* successful command: Transaction(state), get_entity and set_entity on the
\* work state, commit() binds the store's _entities to the snapshot
CommitCall(s, entity_id, gold) ==
    /\ LET W == Snapshot(stores[s].entities)
           data == IF Exists(W, entity_id)
                   THEN [GetEntity(W, entity_id) EXCEPT !.gold = gold]
                   ELSE [gold |-> gold]
       IN /\ stores' = [stores EXCEPT ![s].entities =
                           Commit(@, SetEntity(W, entity_id, data))]
          /\ call' = Called("commit", s, entity_id, data, "none")
    /\ UNCHANGED <<repo, lockVars, execVars, raidVars, sagaVars, txVars, bannerVars, eventVars, schedVars>>

InitStore ==
    /\ IdleExec
    /\ IdleRaid
    /\ IdleSaga
    /\ IdleTx
    /\ IdleBanner
    /\ IdleEvents
    /\ IdleSched
    /\ repo = EmptyMap
    /\ stores \in [Stores -> [entities: {EmptyMap}, loaded: {{}}, auto_flush: BOOLEAN]]
    /\ call = NoCall

NextStore ==
    \/ \E s \in Stores, id \in StoreIds: GetEntityCall(s, id)
    \/ \E s \in Stores, ids \in BulkIds: GetEntitiesBulkCall(s, ids)
    \/ \E s \in Stores, id \in StoreIds, data \in EntityData: SetEntityCall(s, id, data)
    \/ \E s \in Stores, id \in StoreIds: DeleteEntityCall(s, id)
    \/ \E s \in Stores: FlushCall(s)
    \/ \E s \in Stores, id \in StoreIds, gold \in GoldValues: CommitCall(s, id, gold)

SpecStore == InitStore /\ [][NextStore]_vars

\* the record handed to the last set_entity carries a _version that is not
\* the one persisted for its id
StaleWrite ==
    /\ call.op = "set"
    /\ stores[call.store].auto_flush
    /\ "_version" \in DOMAIN call.data
    /\ call.id \in DOMAIN call.repoBefore
    /\ call.repoBefore[call.id].version # call.data["_version"]

\* C6: a write through the store whose record carries a _version other
\* than the persisted one fails with a version conflict and leaves the
\* repository and the store's in-memory entities as they were
StaleWriteLeavesStore ==
    StaleWrite =>
        /\ call.exc = "ValueError"
        /\ repo = call.repoBefore
        /\ stores[call.store].entities = call.entitiesBefore

\* the last call on the store s was a get_entity or a get_entities_bulk
\* that resolved entity_id
LastLookup(s, entity_id) ==
    /\ call.op \in {"get", "get_bulk"}
    /\ call.store = s
    /\ IF call.op = "get" THEN call.id = entity_id ELSE entity_id \in Range(call.id)

\* C30: once get_entity or get_entities_bulk has resolved an id on a store,
\* found or absent, a further get_entity or get_entities_bulk of that id
\* asks the repository for nothing; and get_entities_bulk of the empty list
\* returns the empty mapping and leaves the store and the repository alone
ResolvedIdsNotRefetched ==
    /\ \A s \in Stores, id \in StoreIds:
          LastLookup(s, id) => MissingIds(stores[s], <<id>>) = <<>>
    /\ (call.op = "get_bulk" /\ call.id = <<>>) =>
          /\ call.data = EmptyMap
          /\ stores[call.store].entities = call.entitiesBefore
          /\ repo = call.repoBefore

\* get_entity of the id on the store returns None and exists is false
Absent(st, R, entity_id) ==
    /\ ~StoreGetEntity(st, R, entity_id).found
    /\ ~StoreExists(st, R, entity_id)

\* C40: after delete_entity of an id on a store, in either auto_flush mode,
\* the store's get_entity of the id returns None and its exists is false,
\* and so they are after a flush of the store that follows the delete
DeletedStaysAbsent ==
    /\ [](call.op = "delete" => Absent(stores[call.store], repo, call.id))
    /\ [][(call.op = "delete" /\ call'.op = "flush" /\ call'.store = call.store) =>
             Absent(stores'[call.store], repo', call.id)]_vars

\* C31: after a flush that returned, the repository holds the in-memory
\* value of every entity in the store's memory, however it entered memory
\* (set_entity, a lazy load or a transaction's commit)
FlushWritesMemory ==
    (call.op = "flush" /\ call.exc = "none") =>
        \A id \in DOMAIN stores[call.store].entities:
            /\ id \in DOMAIN repo
            /\ Load(repo, id) = stores[call.store].entities[id]

(***************************************************************************)
(* The raid service.  One RaidService holds a cache of RaidEntity objects  *)
(* and, optionally, a state (a GameState, or a PersistentGameState with    *)
(* auto_flush over the repository).  The dictionary to_dict() returns      *)
(* shares the participants dictionary with the RaidEntity, so a stored     *)
(* record in memory always shows the participants of the cached object.    *)
(***************************************************************************)
RaidId == "dragon"

RaidPlayers == {"p1", "p2"}

\* attack_raid takes any int as damage
Damages == {-1, 0, 1, 2}

Min(a, b) == IF a < b THEN a ELSE b

\* RaidEntity(...) as create_raid builds it
NewRaid(max_hp) ==
    [status |-> "scheduled", max_hp |-> max_hp, current_hp |-> max_hp,
     version |-> 0, participants |-> EmptyMap, total_damage_dealt |-> 0]

\* RaidEntity.to_dict: no "_version" key
ToDict(raid) ==
    [status |-> raid.status, max_hp |-> raid.max_hp, current_hp |-> raid.current_hp,
     version |-> raid.version, participants |-> raid.participants,
     total_damage_dealt |-> raid.total_damage_dealt]

\* RaidEntity.from_dict: the "_version" key, if any, is dropped
FromDict(data) ==
    [status |-> data.status, max_hp |-> data.max_hp, current_hp |-> data.current_hp,
     version |-> data.version, participants |-> data.participants,
     total_damage_dealt |-> data.total_damage_dealt]

\* self._state.exists / get_entity / set_entity for the kind of state
StateExists(st, R, id) ==
    IF st.kind = "plain" THEN Exists(st.entities, id)
    ELSE Exists(st.entities, id) \/ id \in DOMAIN R

StateGet(st, R, id) ==
    IF st.kind = "plain"
    THEN IF Exists(st.entities, id)
         THEN [st |-> st, found |-> TRUE, entity |-> GetEntity(st.entities, id)]
         ELSE [st |-> st, found |-> FALSE, entity |-> EmptyMap]
    ELSE StoreGetEntity(st, R, id)

StateSet(st, R, id, data) ==
    IF st.kind = "plain"
    THEN [st |-> [st EXCEPT !.entities = SetEntity(@, id, data)], R |-> R, exc |-> "none"]
    ELSE StoreSetEntity(st, R, id, data)

\* the stored record in memory sees the participants of the cached object
ShareParticipants(st, participants) ==
    IF st.kind # "none" /\ Exists(st.entities, RaidId)
    THEN [st EXCEPT !.entities[RaidId].participants = participants]
    ELSE st

\* RaidService._get_raid: from the cache, else from the state
GetRaid(st, R, C) ==
    IF RaidId \in DOMAIN C THEN [st |-> st, C |-> C, found |-> TRUE]
    ELSE IF st.kind = "none" THEN [st |-> st, C |-> C, found |-> FALSE]
    ELSE LET got == StateGet(st, R, RaidId)
         IN IF got.found
            THEN [st |-> got.st, C |-> Put(C, RaidId, FromDict(got.entity)), found |-> TRUE]
            ELSE [st |-> got.st, C |-> C, found |-> FALSE]

\* RaidService._save_raid
SaveRaid(st, R, C, raid) ==
    IF st.kind = "none"
    THEN [st |-> st, R |-> R, C |-> Put(C, RaidId, raid), exc |-> "none"]
    ELSE LET set == StateSet(st, R, RaidId, ToDict(raid))
         IN [st |-> set.st, R |-> set.R, C |-> Put(C, RaidId, raid), exc |-> set.exc]

\* AttackResult
AttackSuccess(damage_dealt, current_hp, retry_count) ==
    [done |-> TRUE, success |-> TRUE, damage_dealt |-> damage_dealt,
     current_hp |-> current_hp, retry_count |-> retry_count, error |-> "None"]

AttackFailure(error, retry_count) ==
    [done |-> TRUE, success |-> FALSE, damage_dealt |-> 0,
     current_hp |-> 0, retry_count |-> retry_count, error |-> error]

NoAttackResult == [done |-> FALSE]

\* how one pass of the retry loop ends: with a result, or with a retry
Returns(st, R, C, res) == [st |-> st, R |-> R, C |-> C, retry |-> FALSE, result |-> res]

Retries(st, R, C) == [st |-> st, R |-> R, C |-> C, retry |-> TRUE, result |-> NoAttackResult]

\* attack_raid, lines 354-383: the damage applied to the cached RaidEntity
ApplyDamage(raid, player_id, damage) ==
    LET actual_damage == Min(damage, raid.current_hp)
        old == IF player_id \in DOMAIN raid.participants
               THEN raid.participants[player_id]
               ELSE [total_damage |-> 0, attack_count |-> 0]
        participant == [total_damage |-> old.total_damage + actual_damage,
                        attack_count |-> old.attack_count + 1]
    IN [raid |-> [raid EXCEPT
                    !.current_hp = @ - actual_damage,
                    !.total_damage_dealt = @ + actual_damage,
                    !.version = @ + 1,
                    !.participants = Put(@, player_id, participant),
                    !.status = IF raid.current_hp - actual_damage <= 0
                               THEN "completed" ELSE @],
        actual_damage |-> actual_damage]

\* one pass of the retry loop of attack_raid (lines 331-425); late says
\* that datetime.now() is past expires_at.  The RaidEntity is changed in
\* the cache before the version check and before the save
Attempt(st, R, C, player_id, damage, retry_count, late) ==
    LET g == GetRaid(st, R, C)
    IN IF ~g.found THEN Retries(g.st, R, g.C)
       ELSE LET raid == g.C[RaidId]
            IN IF raid.status # "active"
               THEN Returns(g.st, R, g.C, AttackFailure("Raid is not active", 0))
               ELSE IF late
               THEN LET expired == [raid EXCEPT !.status = "expired"]
                        sv == SaveRaid(g.st, R, Put(g.C, RaidId, expired), expired)
                    IN IF sv.exc # "none" THEN Retries(sv.st, sv.R, sv.C)
                       ELSE Returns(sv.st, sv.R, sv.C, AttackFailure("Raid has expired", 0))
               ELSE LET expected_version == raid.version
                        hit == ApplyDamage(raid, player_id, damage)
                        C1 == Put(g.C, RaidId, hit.raid)
                        st1 == ShareParticipants(g.st, hit.raid.participants)
                        cur == StateGet(st1, R, RaidId)
                    IN IF st1.kind # "none" /\ cur.found
                          /\ cur.entity.version # expected_version
                       THEN Retries(cur.st, R, C1)
                       ELSE LET st2 == IF st1.kind = "none" THEN st1 ELSE cur.st
                                sv == SaveRaid(st2, R, C1, hit.raid)
                            IN IF sv.exc # "none" THEN Retries(sv.st, sv.R, sv.C)
                               ELSE Returns(sv.st, sv.R, sv.C,
                                            AttackSuccess(hit.actual_damage,
                                                          hit.raid.current_hp, retry_count))

\* RaidService.create_raid, when it does not raise "already exists"
CreateRaid ==
    /\ raidState.kind # "idle"
    /\ RaidId \notin DOMAIN raidCache
    /\ raidState.kind # "none" => ~StateExists(raidState, repo, RaidId)
    /\ LET sv == SaveRaid(raidState, repo, raidCache, NewRaid(RaidHp))
       IN /\ raidState' = sv.st
          /\ repo' = sv.R
          /\ raidCache' = sv.C
    /\ UNCHANGED <<attackers, stores, call, lockVars, execVars, sagaVars, txVars, bannerVars, eventVars, schedVars>>

\* RaidService.activate_raid, when the raid is found and neither completed
\* nor expired; an exception of the save leaves the state as it then is
ActivateRaid ==
    /\ raidState.kind # "idle"
    /\ LET g == GetRaid(raidState, repo, raidCache)
       IN /\ g.found
          /\ g.C[RaidId].status \notin {"completed", "expired"}
          /\ LET active == [g.C[RaidId] EXCEPT !.status = "active"]
                 sv == SaveRaid(g.st, repo, Put(g.C, RaidId, active), active)
             IN /\ raidState' = sv.st
                /\ repo' = sv.R
                /\ raidCache' = sv.C
    /\ UNCHANGED <<attackers, stores, call, lockVars, execVars, sagaVars, txVars, bannerVars, eventVars, schedVars>>

\* one pass of the retry loop of the attack_raid call a; the pass that
\* brings retry_count to MAX_RETRY_ATTEMPTS ends the call with a failure
AttackRaid(a) ==
    /\ ~attackers[a].result.done
    /\ \E late \in BOOLEAN:
          LET me == attackers[a]
              r == Attempt(raidState, repo, raidCache, me.player_id, me.damage,
                           me.retry_count, late)
              retry_count == IF r.retry THEN me.retry_count + 1 ELSE me.retry_count
          IN /\ raidState' = r.st
             /\ repo' = r.R
             /\ raidCache' = r.C
             /\ attackers' = [attackers EXCEPT
                   ![a].retry_count = retry_count,
                   ![a].result =
                       IF ~r.retry THEN r.result
                       ELSE IF retry_count < MAX_RETRY_ATTEMPTS THEN NoAttackResult
                       ELSE AttackFailure("Max retries exceeded", retry_count)]
    /\ UNCHANGED <<stores, call, lockVars, execVars, sagaVars, txVars, bannerVars, eventVars, schedVars>>

\* the values of the enumeration RaidStatus
RaidStatus == {"scheduled", "active", "completed", "expired", "cancelled"}

\* the state a RaidService is constructed over: none, an empty one, or a
\* GameState that already holds the record of an unattacked raid
RaidStates ==
    {[kind |-> "none"],
     [kind |-> "plain", entities |-> EmptyMap],
     [kind |-> "persistent", entities |-> EmptyMap, loaded |-> {}, auto_flush |-> TRUE]}
    \cup {[kind |-> "plain",
           entities |-> SetEntity(EmptyMap, RaidId, ToDict([NewRaid(RaidHp) EXCEPT !.status = s]))]:
             s \in RaidStatus \ {"completed"}}

InitRaid ==
    /\ IdleExec
    /\ IdleStore
    /\ IdleSaga
    /\ IdleTx
    /\ IdleBanner
    /\ IdleEvents
    /\ IdleSched
    /\ raidState \in RaidStates
    /\ raidCache = EmptyMap
    /\ attackers \in [1..NumAttackers ->
                        [player_id: RaidPlayers, damage: Damages,
                         retry_count: {0}, result: {NoAttackResult}]]

NextRaid ==
    \/ CreateRaid
    \/ ActivateRaid
    \/ \E a \in DOMAIN attackers: AttackRaid(a)

SpecRaid == InitRaid /\ [][NextRaid]_vars

\* every attack_raid call that was made has returned
NoAttackRunning ==
    \A a \in DOMAIN attackers: attackers[a].result.done \/ attackers[a].retry_count = 0

RECURSIVE SumOver(_, _)
SumOver(f, D) ==
    IF D = {} THEN 0
    ELSE LET x == CHOOSE y \in D: TRUE IN f[x] + SumOver(f, D \ {x})

\* the damage the returned calls report: damage_dealt of the successes
DamageDealt ==
    SumOver([a \in DOMAIN attackers |->
                IF attackers[a].result.done THEN attackers[a].result.damage_dealt ELSE 0],
            DOMAIN attackers)

\* C7: once the attack_raid calls made on a raid of initial HP H have
\* returned, current_hp is max(0, H - sum of the actual damages), that sum
\* is at most H, total_damage_dealt equals it and so does the sum of
\* total_damage over the participants
RaidAccounting ==
    (RaidId \in DOMAIN raidCache /\ NoAttackRunning) =>
        LET raid == raidCache[RaidId]
            parts == raid.participants
        IN /\ DamageDealt <= RaidHp
           /\ raid.current_hp = (IF RaidHp - DamageDealt > 0 THEN RaidHp - DamageDealt ELSE 0)
           /\ raid.total_damage_dealt = DamageDealt
           /\ SumOver([p \in DOMAIN parts |-> parts[p].total_damage], DOMAIN parts)
                  = DamageDealt

\* what an attempt of attack_raid changes in a RaidEntity
Accounts(raid) ==
    <<raid.current_hp, raid.total_damage_dealt, raid.version, raid.participants>>

\* C34: a pass of attack_raid's retry loop that ends in a retry or in a
\* failure leaves HP, total damage, version and participants of the raid
\* the next pass works on, and the repository, as they were; the pass in
\* which an attack succeeds lowers HP by the damage it reports, once
AttemptLeavesNoTrace ==
    [][\A a \in DOMAIN attackers:
         (~attackers[a].result.done /\ attackers'[a] # attackers[a]
             /\ RaidId \in DOMAIN raidCache) =>
            IF attackers'[a].result.done /\ attackers'[a].result.success
            THEN /\ raidCache'[RaidId].current_hp
                      = raidCache[RaidId].current_hp - attackers'[a].result.damage_dealt
                 /\ raidCache'[RaidId].total_damage_dealt
                      = raidCache[RaidId].total_damage_dealt + attackers'[a].result.damage_dealt
            ELSE /\ Accounts(raidCache'[RaidId]) = Accounts(raidCache[RaidId])
                 /\ repo' = repo]_vars

(***************************************************************************)
(* Sagas.  A generic saga has NumSteps steps; step i acts on the counter   *)
(* entity i.  The fusion saga is the one CardFusionCommand.execute builds  *)
(* over two source cards.                                                  *)
(***************************************************************************)
\* the fields of the CommandResult dataclass
CommandResultFields == {"success", "data", "error"}

\* CommandResult(**kwargs): a keyword that is no field raises TypeError
NewCommandResult(kwargs) ==
    IF DOMAIN kwargs \subseteq CommandResultFields THEN "none" ELSE "TypeError"

\* the keywords Saga.execute builds its results with
SagaResultKwargs == [success |-> FALSE, message |-> "saga", metadata |-> "saga"]

SourceCards == <<"card_1", "card_2">>

FusionPlayer == "player_1"

\* entity_status.is_usable
IsUsable(card) == card.status \notin {"on_auction", "in_trade", "locked", "consumed"}

\* validate_cards: the first card that is missing, not owned or not usable
\* raises ValueError
RECURSIVE ValidateCards(_, _)
ValidateCards(S, ids) ==
    IF ids = <<>> THEN "none"
    ELSE IF ~Exists(S, Head(ids)) THEN "ValueError"
    ELSE IF S[Head(ids)].owner_id # FusionPlayer THEN "ValueError"
    ELSE IF ~IsUsable(S[Head(ids)]) THEN "ValueError"
    ELSE ValidateCards(S, Tail(ids))

\* lock_cards: set_status(card, EntityStatus.LOCKED) on every card found
RECURSIVE LockCards(_, _)
LockCards(S, ids) ==
    IF ids = <<>> THEN S
    ELSE IF Exists(S, Head(ids))
    THEN LockCards(SetEntity(S, Head(ids), [S[Head(ids)] EXCEPT !.status = "locked"]),
                   Tail(ids))
    ELSE LockCards(S, Tail(ids))

\* the members of the EntityStatus enumeration
EntityStatusNames ==
    {"ACTIVE", "LOCKED", "ON_AUCTION", "IN_TRADE", "EQUIPPED", "CONSUMED", "RESERVED"}

\* unlock_cards: set_status(card, EntityStatus.AVAILABLE) on every card
\* found; an enumeration member that does not exist raises AttributeError
RECURSIVE UnlockCards(_, _)
UnlockCards(S, ids) ==
    IF ids = <<>> THEN [S |-> S, exc |-> "none"]
    ELSE IF ~Exists(S, Head(ids)) THEN UnlockCards(S, Tail(ids))
    ELSE IF "AVAILABLE" \notin EntityStatusNames THEN [S |-> S, exc |-> "AttributeError"]
    ELSE UnlockCards(SetEntity(S, Head(ids), [S[Head(ids)] EXCEPT !.status = "available"]),
                     Tail(ids))

\* the methods of GameState
GameStateMethods ==
    {"get_entity", "set_entity", "delete_entity", "exists", "clear", "entity_count",
     "get_entities_by_type", "get_entities_by_filter", "get_all_entities"}

\* restore_cards: set_entity of every copy taken before the saga was built
RECURSIVE RestoreCards(_, _, _)
RestoreCards(S, original_cards, ids) ==
    IF ids = <<>> THEN S
    ELSE IF Exists(original_cards, Head(ids))
    THEN RestoreCards(SetEntity(S, Head(ids), original_cards[Head(ids)]),
                      original_cards, Tail(ids))
    ELSE RestoreCards(S, original_cards, Tail(ids))

\* step.action(state): the entities it leaves and the exception it raises
ActionCall(step, i, S) ==
    IF step.action = "incr"
    THEN [S |-> SetEntity(S, i, [n |-> S[i].n + 1]), exc |-> "none"]
    ELSE IF step.action = "fail" THEN [S |-> S, exc |-> "ValueError"]
    ELSE IF step.action = "validate_cards"
    THEN [S |-> S, exc |-> ValidateCards(S, SourceCards)]
    ELSE IF step.action = "lock_cards"
    THEN [S |-> LockCards(S, SourceCards), exc |-> "none"]
    ELSE IF step.action = "remove_cards"
    THEN IF "remove_entity" \in GameStateMethods
         THEN [S |-> Del(Del(S, SourceCards[1]), SourceCards[2]), exc |-> "none"]
         ELSE [S |-> S, exc |-> "AttributeError"]
    ELSE [S |-> SetEntity(S, "fused", [owner_id |-> FusionPlayer, status |-> "active"]),
          exc |-> "none"]

\* step.compensation(state) of a step that has one
CompensationCall(step, i, S, original_cards) ==
    IF step.compensation = "undo"
    THEN [S |-> SetEntity(S, i, [n |-> S[i].n - 1]), exc |-> "none"]
    ELSE IF step.compensation = "raises" THEN [S |-> S, exc |-> "RuntimeError"]
    ELSE IF step.compensation = "unlock_cards" THEN UnlockCards(S, SourceCards)
    ELSE IF step.compensation = "restore_cards"
    THEN [S |-> RestoreCards(S, original_cards, SourceCards), exc |-> "none"]
    ELSE IF "remove_entity" \in GameStateMethods
         THEN [S |-> Del(S, "fused"), exc |-> "none"]
         ELSE [S |-> S, exc |-> "AttributeError"]

RECURSIVE Reverse(_)
Reverse(seq) == IF seq = <<>> THEN <<>> ELSE Append(Reverse(Tail(seq)), Head(seq))

\* a plausible slip: the executed steps are compensated in execution order
ExecutionOrder(executed_steps) == executed_steps

\* _compensate: executed_steps.reverse()
CompensationOrder(executed_steps) == Reverse(executed_steps)

\* the executed steps, in the order of self.steps
ExecutedSteps(sg) == SelectSeq([i \in 1..Len(sg.steps) |-> i], LAMBDA i: i \in sg.executed)

\* the loop of _compensate passes over the steps without a compensation
RECURSIVE SkipNone(_, _)
SkipNone(steps, todo) ==
    IF todo = <<>> THEN <<>>
    ELSE IF steps[Head(todo)].compensation = "none" THEN SkipNone(steps, Tail(todo))
    ELSE todo

\* the end of Saga.execute: the status is set, then the CommandResult is
\* built and returned, or its constructor raises
Finish(sg, status) ==
    LET exc == NewCommandResult(SagaResultKwargs)
    IN [sg EXCEPT !.status = status,
                  !.pc = IF exc = "none" THEN "returned" ELSE "raised",
                  !.err = exc]

\* one pass of the loop of Saga.execute (lines 178-229) up to the first
\* compensation call: the action of the next step is called; when it
\* raises, the compensation starts (and ends at once if no executed step
\* has a compensation); when the last step has run, execute ends
SagaStep ==
    /\ saga.kind # "idle"
    /\ saga.pc \in {"pending", "executing"}
    /\ LET i == saga.i
           step == saga.steps[i]
           out == ActionCall(step, i, sagaState)
       IN /\ sagaState' = out.S
          /\ IF out.exc = "none"
             THEN LET ran == [saga EXCEPT !.executed = @ \cup {i}, !.i = i + 1,
                                          !.pc = "executing", !.status = "executing"]
                  IN /\ saga' = IF i = Len(saga.steps) THEN Finish(ran, "completed") ELSE ran
                     /\ sagaLog' = Append(sagaLog, [call |-> "action", step |-> i, exc |-> "none"])
             ELSE LET todo == SkipNone(saga.steps, CompensationOrder(ExecutedSteps(saga)))
                      failed == [saga EXCEPT !.status = "compensating", !.failed_step = i,
                                             !.pc = "compensating", !.todo = todo]
                  IN /\ saga' = IF todo = <<>> THEN Finish(failed, "failed") ELSE failed
                     /\ sagaLog' = Append(sagaLog, [call |-> "action", step |-> i, exc |-> out.exc])
    /\ UNCHANGED <<sagaPre, lockVars, execVars, storeVars, raidVars, txVars, bannerVars, eventVars, schedVars>>

\* one pass of the loop of _compensate (lines 262-279) that calls a
\* compensation; after the last one execute ends (lines 204-229)
SagaCompensate ==
    /\ saga.kind # "idle"
    /\ saga.pc = "compensating"
    /\ LET i == Head(saga.todo)
           out == CompensationCall(saga.steps[i], i, sagaState, saga.original_cards)
           todo == SkipNone(saga.steps, Tail(saga.todo))
           called == [saga EXCEPT
                        !.todo = todo,
                        !.compensated = IF out.exc = "none" THEN @ \cup {i} ELSE @,
                        !.compensation_failed = @ \/ out.exc # "none"]
       IN /\ sagaState' = out.S
          /\ saga' = IF todo = <<>> THEN Finish(called, "failed") ELSE called
          /\ sagaLog' = Append(sagaLog, [call |-> "compensation", step |-> i, exc |-> out.exc])
    /\ UNCHANGED <<sagaPre, lockVars, execVars, storeVars, raidVars, txVars, bannerVars, eventVars, schedVars>>

\* Saga.__init__ and add_step; SagaExecutionContext
NewSaga(kind, steps, original_cards) ==
    [kind |-> kind, steps |-> steps, original_cards |-> original_cards,
     status |-> "pending", pc |-> "pending", i |-> 1, executed |-> {},
     compensated |-> {}, failed_step |-> 0, todo |-> <<>>,
     compensation_failed |-> FALSE, err |-> "none"]

GenericSteps ==
    [1..NumSteps -> [action: {"incr", "fail"}, compensation: {"none", "undo", "raises"}]]

\* the steps CardFusionCommand.execute adds
FusionSteps ==
    << [action |-> "validate_cards", compensation |-> "none"],
       [action |-> "lock_cards", compensation |-> "unlock_cards"],
       [action |-> "remove_cards", compensation |-> "restore_cards"],
       [action |-> "create_fused", compensation |-> "remove_fused"] >>

\* the cards a fusion finds: the first is the player's and usable, the
\* second is any card or is missing
FusionStates ==
    {[c \in {"card_1"} |-> [owner_id |-> FusionPlayer, status |-> "active"]]}
    \cup {[c \in {"card_1", "card_2"} |->
              IF c = "card_1" THEN [owner_id |-> FusionPlayer, status |-> "active"] ELSE second]
          : second \in [owner_id: {FusionPlayer, "player_2"}, status: {"active", "locked"}]}

InitSaga ==
    /\ IdleExec
    /\ IdleStore
    /\ IdleRaid
    /\ IdleTx
    /\ IdleBanner
    /\ IdleEvents
    /\ IdleSched
    /\ \/ /\ sagaState = [i \in 1..NumSteps |-> [n |-> 0]]
          /\ \E steps \in GenericSteps: saga = NewSaga("generic", steps, EmptyMap)
       \/ /\ sagaState \in FusionStates
          /\ saga = NewSaga("fusion", FusionSteps, sagaState)
    /\ sagaPre = sagaState
    /\ sagaLog = <<>>

NextSaga ==
    \/ SagaStep
    \/ SagaCompensate

SpecSaga == InitSaga /\ [][NextSaga]_vars

\* Saga.execute has ended, by returning or by raising
SagaEnded == saga.pc \in {"returned", "raised"}

\* the steps of the calls of one sort in the log, in the order of the calls
CallsOf(sort) ==
    LET calls == SelectSeq(sagaLog, LAMBDA c: c.call = sort)
    IN [j \in 1..Len(calls) |-> calls[j].step]

\* the steps before step k that have a compensation, last first
RECURSIVE CompensableBefore(_, _)
CompensableBefore(steps, k) ==
    IF k <= 1 THEN <<>>
    ELSE IF steps[k - 1].compensation = "none" THEN CompensableBefore(steps, k - 1)
    ELSE <<k - 1>> \o CompensableBefore(steps, k - 1)

IsPrefix(a, b) == Len(a) <= Len(b) /\ a = SubSeq(b, 1, Len(a))

\* C9: when step k of a saga raises, the compensations of the executed
\* steps k-1 down to 1 are called in that order, each step that has one
\* exactly once; the failed step and the later steps are not compensated
\* and no action of a later step is called
CompensationInReverse ==
    saga.kind # "idle" =>
        IF saga.failed_step = 0
        THEN CallsOf("compensation") = <<>>
        ELSE LET k == saga.failed_step
                 expected == CompensableBefore(saga.steps, k)
             IN /\ CallsOf("action") = [j \in 1..k |-> j]
                /\ IsPrefix(CallsOf("compensation"), expected)
                /\ SagaEnded => CallsOf("compensation") = expected

\* the third step of a saga raised and the two steps before it were
\* compensated
TwoStepsCompensated ==
    /\ saga.kind = "generic"
    /\ SagaEnded
    /\ saga.failed_step = 3
    /\ CallsOf("compensation") = <<2, 1>>

\* C10: after a saga failed at step k, if every earlier step has a
\* compensation that inverts its action the entities are as they were
\* before Saga.execute and the status is failed; a card fusion that
\* failed has left its source cards present with their original status
\* and no fused card
SagaFailureRestores ==
    (saga.kind # "idle" /\ SagaEnded /\ saga.failed_step # 0) =>
        /\ ( /\ saga.kind = "generic"
             /\ \A j \in 1..(saga.failed_step - 1): saga.steps[j].compensation = "undo" )
           => (sagaState = sagaPre /\ saga.status = "failed")
        /\ saga.kind = "fusion"
           => /\ saga.status = "failed"
              /\ \A c \in DOMAIN sagaPre: Exists(sagaState, c) /\ sagaState[c] = sagaPre[c]
              /\ ~Exists(sagaState, "fused")

(***************************************************************************)
(* Transactions opened by hand on one GameState S.  Python dictionaries    *)
(* are objects: dicts maps an object to the entities it holds.  Object 1   *)
(* is the dictionary S starts with, object t + 1 is the deep copy that     *)
(* Transaction t makes, stateRef is the object S._entities refers to.  A   *)
(* _snapshot of 0 is the empty dictionary rollback() puts in its place.    *)
(* The work state get_work_state returns has the snapshot object itself    *)
(* as its _entities; its holder can write to it at any time.               *)
(***************************************************************************)
\* transactions opened on the store
NumTx == 2

\* the entity ids of transactions on disjoint entities
TxIds == {1, 2}

\* a plausible slip: the snapshot is the store's own dictionary
NoCopy(ref, fresh) == ref

\* Transaction.__init__: deepcopy(state._entities) is a new object
DeepCopy(ref, fresh) == fresh

\* a plausible slip: only a committed transaction is refused
OnlyCommitted(x) == x._committed

\* the guards of get_work_state, commit and rollback
Finalized(x) == x._committed \/ x._rolled_back

\* is_active, is_committed, is_rolled_back of a Transaction object
TxStateOf(x) ==
    IF ~x.constructed THEN "none"
    ELSE IF x._committed THEN "committed"
    ELSE IF x._rolled_back THEN "rolled_back"
    ELSE "active"

\* the record of a call: the operation, its transaction, what it raised
TxCalled(op, t, exc) == [op |-> op, t |-> t, exc |-> exc]

\* Transaction(state)
TxBegin(t) ==
    /\ ~tx[t].constructed
    /\ dicts' = [dicts EXCEPT ![t + 1] = dicts[stateRef]]
    /\ tx' = [tx EXCEPT ![t].constructed = TRUE,
                        ![t]._snapshot = DeepCopy(stateRef, t + 1),
                        ![t].atBegin = dicts[stateRef]]
    /\ txCall' = TxCalled("begin", t, "none")
    /\ UNCHANGED <<stateRef, lockVars, execVars, storeVars, raidVars, sagaVars, bannerVars, eventVars, schedVars>>

\* Transaction.get_work_state
GetWorkState(t) ==
    /\ tx[t].constructed
    /\ IF Finalized(tx[t])
       THEN /\ txCall' = TxCalled("get_work_state", t, "RuntimeError")
            /\ UNCHANGED tx
       ELSE /\ txCall' = TxCalled("get_work_state", t, "none")
            /\ tx' = [tx EXCEPT ![t].work_state = tx[t]._snapshot]
    /\ UNCHANGED <<dicts, stateRef, lockVars, execVars, storeVars, raidVars, sagaVars, bannerVars, eventVars, schedVars>>

\* set_entity or delete_entity of one of ids on the work state of
\* transaction t
WorkWrite(t, ids) ==
    /\ tx[t].work_state # 0
    /\ \E id \in ids:
          \/ /\ \E data \in [gold: GoldValues]:
                   dicts' = [dicts EXCEPT ![tx[t].work_state] = SetEntity(@, id, data)]
             /\ txCall' = TxCalled("set", t, "none")
          \/ /\ dicts' = [dicts EXCEPT ![tx[t].work_state] = Del(@, id)]
             /\ txCall' = TxCalled("delete", t, "none")
    /\ UNCHANGED <<stateRef, tx, lockVars, execVars, storeVars, raidVars, sagaVars, bannerVars, eventVars, schedVars>>

\* Transaction.commit
TxCommit(t) ==
    /\ tx[t].constructed
    /\ IF Finalized(tx[t])
       THEN /\ txCall' = TxCalled("commit", t, "RuntimeError")
            /\ UNCHANGED <<stateRef, tx>>
       ELSE /\ txCall' = TxCalled("commit", t, "none")
            /\ stateRef' = tx[t]._snapshot
            /\ tx' = [tx EXCEPT ![t]._committed = TRUE]
    /\ UNCHANGED <<dicts, lockVars, execVars, storeVars, raidVars, sagaVars, bannerVars, eventVars, schedVars>>

\* Transaction.rollback
TxRollback(t) ==
    /\ tx[t].constructed
    /\ IF Finalized(tx[t])
       THEN /\ txCall' = TxCalled("rollback", t, "RuntimeError")
            /\ UNCHANGED tx
       ELSE /\ txCall' = TxCalled("rollback", t, "none")
            /\ tx' = [tx EXCEPT ![t]._snapshot = 0, ![t]._rolled_back = TRUE]
    /\ UNCHANGED <<dicts, stateRef, lockVars, execVars, storeVars, raidVars, sagaVars, bannerVars, eventVars, schedVars>>

\* a GameState that is empty or holds ids, and no transaction yet
InitTxOver(ids) ==
    /\ IdleExec
    /\ IdleStore
    /\ IdleRaid
    /\ IdleSaga
    /\ IdleBanner
    /\ IdleEvents
    /\ IdleSched
    /\ \E S \in {EmptyMap} \cup [ids -> [gold: GoldValues]]:
          dicts = [o \in 1..(NumTx + 1) |-> IF o = 1 THEN S ELSE EmptyMap]
    /\ stateRef = 1
    /\ tx = [t \in 1..NumTx |->
               [constructed |-> FALSE, _committed |-> FALSE, _rolled_back |-> FALSE,
                _snapshot |-> 0, work_state |-> 0, atBegin |-> EmptyMap]]
    /\ txCall = TxCalled("none", 0, "none")

InitTx == InitTxOver(StoreIds)

NextTx ==
    \/ \E t \in DOMAIN tx: TxBegin(t)
    \/ \E t \in DOMAIN tx: GetWorkState(t)
    \/ \E t \in DOMAIN tx: WorkWrite(t, StoreIds)
    \/ \E t \in DOMAIN tx: TxCommit(t)
    \/ \E t \in DOMAIN tx: TxRollback(t)

SpecTx == InitTx /\ [][NextTx]_vars

\* C11: a set_entity or delete_entity through the work state of an active
\* transaction leaves the entities of S as they are; rollback leaves them as
\* they are, and after it S holds what it held when the transaction began
\* (no other transaction having committed); commit makes the entities of S
\* equal to the working snapshot
TxIsolation ==
    /\ [](\A t \in DOMAIN tx:
            (tx[t]._rolled_back /\ \A u \in DOMAIN tx \ {t}: ~tx[u]._committed)
                => dicts[stateRef] = tx[t].atBegin)
    /\ [][LET c == txCall'
          IN /\ (c.op \in {"set", "delete"} /\ TxStateOf(tx[c.t]) = "active")
                    => dicts'[stateRef'] = dicts[stateRef]
             /\ c.op = "rollback" => dicts'[stateRef'] = dicts[stateRef]
             /\ (c.op = "commit" /\ c.exc = "none")
                    => dicts'[stateRef'] = dicts[tx[c.t]._snapshot]]_vars

\* a transaction wrote through its work state and was rolled back
RolledBackAfterWrite ==
    \E t \in DOMAIN tx:
        /\ tx[t]._rolled_back
        /\ tx[t].work_state # 0
        /\ dicts[tx[t].work_state] # tx[t].atBegin

\* C12: a Transaction is never both committed and rolled back; its state
\* changes only from active to committed by commit and from active to
\* rolled_back by rollback; on a finalized transaction commit, rollback and
\* get_work_state raise RuntimeError and change neither the transaction nor
\* the store
TxLifecycle ==
    /\ [](\A t \in DOMAIN tx: ~(tx[t]._committed /\ tx[t]._rolled_back))
    /\ [][LET c == txCall'
          IN /\ \A t \in DOMAIN tx:
                   LET a == TxStateOf(tx[t])
                       b == TxStateOf(tx'[t])
                   IN a # b =>
                        \/ a = "none" /\ b = "active" /\ c = TxCalled("begin", t, "none")
                        \/ a = "active" /\ b = "committed" /\ c = TxCalled("commit", t, "none")
                        \/ a = "active" /\ b = "rolled_back"
                              /\ c = TxCalled("rollback", t, "none")
             /\ (/\ c.op \in {"commit", "rollback", "get_work_state"}
                 /\ TxStateOf(tx[c.t]) \in {"committed", "rolled_back"})
                    => /\ c.exc = "RuntimeError"
                       /\ UNCHANGED <<tx, dicts, stateRef>>]_vars

\* commit, rollback or get_work_state was called on a finalized transaction
FinalizedCallFailed ==
    /\ txCall.op \in {"commit", "rollback", "get_work_state"}
    /\ txCall.exc = "RuntimeError"

\* transactions on a store of two entities
InitMerge == InitTxOver(TxIds)

NextMerge ==
    \/ \E t \in DOMAIN tx: TxBegin(t)
    \/ \E t \in DOMAIN tx: GetWorkState(t)
    \/ \E t \in DOMAIN tx: WorkWrite(t, TxIds)
    \/ \E t \in DOMAIN tx: TxCommit(t)
    \/ \E t \in DOMAIN tx: TxRollback(t)

SpecMerge == InitMerge /\ [][NextMerge]_vars

\* the entry of id in the dictionary d
EntryOf(d, id) == IF id \in DOMAIN d THEN [has |-> TRUE, data |-> d[id]] ELSE [has |-> FALSE]

\* the ids whose entries transaction t changed in its snapshot
Modified(t) ==
    {id \in TxIds: EntryOf(dicts[tx[t]._snapshot], id) # EntryOf(tx[t].atBegin, id)}

\* C35: when two transactions on the store that changed disjoint entities
\* have both committed, the store holds the changes of both
CommitsMerge ==
    \A t, u \in DOMAIN tx:
        (/\ t # u
         /\ tx[t]._committed
         /\ tx[u]._committed
         /\ Modified(t) \cap Modified(u) = {}) =>
            \A id \in Modified(t):
                EntryOf(dicts[stateRef], id) = EntryOf(dicts[tx[t]._snapshot], id)

(***************************************************************************)
(* Transactions over the persistent store.                                 *)
(***************************************************************************)
\* a PersistentGameState newly opened on the repository
FreshStore == [entities |-> EmptyMap, loaded |-> {}, auto_flush |-> TRUE]

\* C13: after a transaction over a write-through store has committed an
\* entity, a store newly opened on the same repository reads the committed
\* value of that entity
CommitPersists ==
    (call.op = "commit" /\ stores[call.store].auto_flush) =>
        LET read == StoreGetEntity(FreshStore, repo, call.id)
        IN read.found /\ read.entity.gold = call.data.gold

VersionCountsWrites ==
    via = "async" =>
        \A p \in DOMAIN entities0 \cap DOMAIN entities:
            entities[p]["_version"] = entities0[p]["_version"]
                + Cardinality({t \in Returned: result[t].success /\ cmd[t].player = p})

(***************************************************************************)
(* Timeouts and cancellation of lock acquisitions.                         *)
(***************************************************************************)
\* C16: an acquire call that gave up on a timeout has raised TimeoutError
\* and no other error, and holds none of the locks it had taken: each is
\* unlocked or has been taken by another call since
TimeoutReleasesAll ==
    \A t \in Tasks:
        pc[t] = "raised" =>
            /\ err[t] = "TimeoutError"
            /\ \A i \in DOMAIN acquired[t]:
                   LET id == acquired[t][i]
                   IN \/ ~lk[lockOf[id]].locked
                      \/ \E u \in Tasks \ {t}:
                            /\ ~Finished(u)
                            /\ \E j \in DOMAIN acquired[u]: acquired[u][j] = id

\* the task running AsyncCommandExecutor.execute is cancelled while its
\* acquire waits for a lock: the waiter leaves the queue (passing on a
\* wake-up it was given) and CancelledError, which is no Exception, passes
\* both handlers of acquire; lock_entities has not entered its try block
Cancel(t) ==
    /\ via = "async"
    /\ pc[t] = "waiting"
    /\ LET o == waitOn[t]
           wasWoken == lk[o].woken /\ Head(lk[o].waiters) = t
           rest == RemoveWaiter(lk[o].waiters, t)
       IN lk' = [lk EXCEPT ![o].waiters = rest,
                           ![o].woken = IF wasWoken THEN rest # <<>> ELSE @]
    /\ err' = [err EXCEPT ![t] = "CancelledError"]
    /\ pc' = [pc EXCEPT ![t] = "raised"]
    /\ waitOn' = [waitOn EXCEPT ![t] = 0]
    /\ UNCHANGED <<lockOf, nLocks, deps, idx, acquired, execVars, notExec>>

\* EntityLockManager.is_locked
IsLocked(id) == lockOf[id] # 0 /\ lk[lockOf[id]].locked

\* commands submitted to one AsyncCommandExecutor; a command of the
\* caller's own names its player and possibly further entities as its
\* dependencies, as AttackMobCommand names its player and its mob
InitCancel ==
    /\ via = "async"
    /\ InitLockPart(1..NumCommands, "acquiring")
    /\ cmd \in [1..NumCommands -> Commands]
    /\ deps \in [1..NumCommands -> DepLists]
    /\ \A t \in 1..NumCommands:
          IF cmd[t].op = "write"
          THEN \E i \in DOMAIN deps[t]: deps[t][i] = cmd[t].player
          ELSE deps[t] = Dependencies(cmd[t])
    /\ result = [t \in 1..NumCommands |-> NoResult]
    /\ entities \in InitialStores
    /\ IdleStore
    /\ IdleRaid
    /\ IdleSaga
    /\ IdleTx
    /\ IdleBanner
    /\ IdleEvents
    /\ IdleSched
    /\ entities0 = entities
    /\ final_results = <<>>

NextCancel ==
    \/ \E t \in Tasks: AcquireStep(t)
    \/ \E t \in Tasks: AcquireWake(t)
    \/ \E t \in Tasks: AcquireTimeout(t)
    \/ \E t \in Tasks: AsyncExecute(t)
    \/ \E t \in Tasks: Cancel(t)

SpecCancel == InitCancel /\ [][NextCancel]_vars

\* C17: once every command submitted to the AsyncCommandExecutor has
\* finished (with a result, or with an exception of the lock acquisition or
\* a cancellation), is_locked is false for every entity id
LocksReleasedAtEnd ==
    (\A t \in Tasks: Finished(t)) => \A id \in Ids: ~IsLocked(id)

\* a batch handed to execute_batch of one AsyncCommandExecutor: the execute
\* calls run as concurrent tasks, and the batch returns when all have ended
InitBatch == InitExec /\ via = "async"

NextBatch ==
    \/ \E t \in Tasks: AcquireStep(t)
    \/ \E t \in Tasks: AcquireWake(t)
    \/ \E t \in Tasks: AcquireTimeout(t)
    \/ \E t \in Tasks: AsyncExecute(t)
    \/ ExecuteBatchReturn

SpecBatch == InitBatch /\ [][NextBatch]_vars

\* C32: the list execute_batch returned has one result per command, at the
\* index of the command: the CommandResult its execute returned, or a failed
\* result where its execute raised (a lock timeout included); and every
\* command whose execute did not raise was executed: the store and the
\* results are those of running these commands in some serial order
BatchResults ==
    final_results # <<>> =>
        /\ DOMAIN final_results = 1..NumCommands
        /\ \A t \in Tasks:
              IF err[t] = "none"
              THEN result[t].done /\ final_results[t] = result[t]
              ELSE /\ final_results[t].done
                   /\ ~final_results[t].success
                   /\ final_results[t].error = "Execution failed"
        /\ \E order \in Orders(Returned):
               LET run == SerialRun(entities0, [t \in Tasks |-> NoResult], order)
               IN /\ run.S = entities
                  /\ \A t \in Returned: run.R[t] = result[t]

\* a batch has returned in which one command timed out on a lock, one
\* failed in its transaction and one succeeded and changed the store
BatchWithFailures ==
    /\ final_results # <<>>
    /\ \E t, u \in Tasks:
          /\ err[t] # "none"
          /\ final_results[u].success
          /\ entities # entities0

\* ---------------------------------------------------------------------------
\* BannerManager (services/banner_manager.py) with the scheduler's one-shot
\* tasks (services/scheduler.py).  banners maps a banner id to its status,
\* "None" stands for Python's None, and scheduled holds the callbacks of flash
\* banners that the scheduler has not run yet.  Every method is synchronous, so
\* each call and each callback is one step.
\* ---------------------------------------------------------------------------

\* banner ids are Python strings; the empty string is one of them
BannerIds == {"", "standard", "flash"}

\* `if self._active_banner_id`: Python truth value of an Optional[str]
Truthy(id) == id # "None" /\ id # ""

\* activate_banner: raises for a missing or expired banner (ok = FALSE),
\* otherwise demotes the current banner and activates banner_id
ActivateBanner(B, active, banner_id) ==
    IF banner_id \notin DOMAIN B \/ B[banner_id] = "expired"
    THEN [ok |-> FALSE, banners |-> B, active |-> active]
    ELSE LET old == IF /\ Truthy(active)
                       /\ active # banner_id
                       /\ active \in DOMAIN B
                       /\ B[active] = "active"
                    THEN [B EXCEPT ![active] = "scheduled"]
                    ELSE B
         IN [ok |-> TRUE, banners |-> [old EXCEPT ![banner_id] = "active"], active |-> banner_id]

\* expire_banner: a missing banner is ignored; an expired active banner falls
\* back to the default banner, or to no banner
ExpireBanner(B, active, default, banner_id) ==
    IF banner_id \notin DOMAIN B
    THEN [banners |-> B, active |-> active]
    ELSE LET expired == [B EXCEPT ![banner_id] = "expired"]
         IN IF active # banner_id
            THEN [banners |-> expired, active |-> active]
            ELSE IF Truthy(default) /\ default # banner_id
                 THEN [banners |-> IF default \in DOMAIN expired
                                   THEN [expired EXCEPT ![default] = "active"]
                                   ELSE expired,
                       active |-> default]
                 ELSE [banners |-> expired, active |-> "None"]

\* get_active_banner: the id of the banner it returns, "None" when it returns None
GetActiveBanner ==
    IF ~Truthy(active_banner_id) THEN "None"
    ELSE IF active_banner_id \notin DOMAIN banners \/ banners[active_banner_id] # "active"
         THEN "None"
         ELSE active_banner_id

\* create_banner with a non-empty card pool; an existing id raises ValueError
CreateBanner(banner_id) ==
    /\ banner_id \notin DOMAIN banners
    /\ banners' = Put(banners, banner_id, "scheduled")
    /\ UNCHANGED <<active_banner_id, default_banner_id, scheduled>>
    /\ UNCHANGED <<lockVars, execVars, storeVars, raidVars, sagaVars, txVars, eventVars, schedVars>>

\* create_flash_banner: create_banner, then one task for the activation and one
\* for the expiration
CreateFlashBanner(banner_id) ==
    /\ banner_id \notin DOMAIN banners
    /\ banners' = Put(banners, banner_id, "scheduled")
    /\ scheduled' = scheduled \cup {[callback |-> "activate", banner_id |-> banner_id],
                                    [callback |-> "expire", banner_id |-> banner_id]}
    /\ UNCHANGED <<active_banner_id, default_banner_id>>
    /\ UNCHANGED <<lockVars, execVars, storeVars, raidVars, sagaVars, txVars, eventVars, schedVars>>

\* a direct call of activate_banner; a call that raises changes nothing
ActivateCall(banner_id) ==
    /\ LET r == ActivateBanner(banners, active_banner_id, banner_id)
       IN /\ r.ok
          /\ banners' = r.banners
          /\ active_banner_id' = r.active
    /\ UNCHANGED <<default_banner_id, scheduled>>
    /\ UNCHANGED <<lockVars, execVars, storeVars, raidVars, sagaVars, txVars, eventVars, schedVars>>

\* a direct call of expire_banner on a registered banner
ExpireCall(banner_id) ==
    /\ banner_id \in DOMAIN banners
    /\ LET r == ExpireBanner(banners, active_banner_id, default_banner_id, banner_id)
       IN /\ banners' = r.banners
          /\ active_banner_id' = r.active
    /\ UNCHANGED <<default_banner_id, scheduled>>
    /\ UNCHANGED <<lockVars, execVars, storeVars, raidVars, sagaVars, txVars, eventVars, schedVars>>

\* set_default_banner: the default is assigned first; with no active banner the
\* default is activated, and when that raises the assignment stays
SetDefaultBanner(banner_id) ==
    /\ banner_id \in DOMAIN banners
    /\ default_banner_id' = banner_id
    /\ LET r == IF active_banner_id = "None"
                THEN ActivateBanner(banners, active_banner_id, banner_id)
                ELSE [ok |-> TRUE, banners |-> banners, active |-> active_banner_id]
       IN /\ banners' = r.banners
          /\ active_banner_id' = r.active
    /\ UNCHANGED scheduled
    /\ UNCHANGED <<lockVars, execVars, storeVars, raidVars, sagaVars, txVars, eventVars, schedVars>>

\* the event loop runs a flash banner's activate_callback; an exception of
\* activate_banner ends that task and nothing else
ActivateCallback(banner_id) ==
    /\ [callback |-> "activate", banner_id |-> banner_id] \in scheduled
    /\ scheduled' = scheduled \ {[callback |-> "activate", banner_id |-> banner_id]}
    /\ LET r == ActivateBanner(banners, active_banner_id, banner_id)
       IN /\ banners' = r.banners
          /\ active_banner_id' = r.active
    /\ UNCHANGED default_banner_id
    /\ UNCHANGED <<lockVars, execVars, storeVars, raidVars, sagaVars, txVars, eventVars, schedVars>>

\* the scheduler runs a flash banner's expiration callback, which is due no
\* earlier than the banner's activation
ExpireCallback(banner_id) ==
    /\ [callback |-> "expire", banner_id |-> banner_id] \in scheduled
    /\ [callback |-> "activate", banner_id |-> banner_id] \notin scheduled
    /\ scheduled' = scheduled \ {[callback |-> "expire", banner_id |-> banner_id]}
    /\ LET r == ExpireBanner(banners, active_banner_id, default_banner_id, banner_id)
       IN /\ banners' = r.banners
          /\ active_banner_id' = r.active
    /\ UNCHANGED default_banner_id
    /\ UNCHANGED <<lockVars, execVars, storeVars, raidVars, sagaVars, txVars, eventVars, schedVars>>

InitBanner ==
    /\ IdleBanner
    /\ IdleEvents
    /\ IdleSched
    /\ IdleExec
    /\ IdleStore
    /\ IdleRaid
    /\ IdleSaga
    /\ IdleTx

NextBanner ==
    \/ \E b \in BannerIds: CreateBanner(b)
    \/ \E b \in BannerIds: CreateFlashBanner(b)
    \/ \E b \in BannerIds: ActivateCall(b)
    \/ \E b \in BannerIds: ExpireCall(b)
    \/ \E b \in BannerIds: SetDefaultBanner(b)
    \/ \E b \in BannerIds: ActivateCallback(b)
    \/ \E b \in BannerIds: ExpireCallback(b)

SpecBanner == InitBanner /\ [][NextBanner]_vars

\* C18: at most one banner has status active, and get_active_banner returns
\* exactly that banner, or None when no banner is active
OneActiveBanner ==
    LET act == {b \in DOMAIN banners: banners[b] = "active"}
    IN /\ Cardinality(act) <= 1
       /\ act = {} => GetActiveBanner = "None"
       /\ \A b \in act: GetActiveBanner = b

\* C39: a banner whose status is expired does not become active: no call
\* of activate_banner, expire_banner or set_default_banner, the fallback to
\* the default banner included, gives it the status active or makes it the
\* banner get_active_banner returns
ExpiredNeverActive ==
    [][\A b \in DOMAIN banners:
          banners[b] = "expired" =>
              /\ banners'[b] # "active"
              /\ GetActiveBanner' # b]_vars

\* C19: a pass of attack_raid that finds the raid not active ends the call with
\* the not-active failure and leaves the raid as it is; a pass that finds an
\* active raid past expires_at sets its status to expired, changes nothing
\* else of it and ends the call with the expired failure
AttackRefused ==
    [][\A a \in DOMAIN attackers:
          LET g == GetRaid(raidState, repo, raidCache)
          IN (attackers'[a] # attackers[a] /\ g.found) =>
                LET raid == g.C[RaidId]
                    after == raidCache'[RaidId]
                IN /\ raid.status # "active" =>
                         /\ attackers'[a].result = AttackFailure("Raid is not active", 0)
                         /\ after = raid
                   /\ (raid.status = "active" /\ after.status = "expired") =>
                         /\ attackers'[a].result = AttackFailure("Raid has expired", 0)
                         /\ after = [raid EXCEPT !.status = "expired"]]_vars

NoDamageRefused ==
    /\ [](RaidId \in DOMAIN raidCache =>
            /\ raidCache[RaidId].current_hp <= raidCache[RaidId].max_hp
            /\ \A p \in DOMAIN raidCache[RaidId].participants:
                  raidCache[RaidId].participants[p].total_damage >= 0)
    /\ [][\A a \in DOMAIN attackers:
             LET g == GetRaid(raidState, repo, raidCache)
             IN (/\ attackers'[a] # attackers[a]
                 /\ attackers[a].damage <= 0
                 /\ g.found
                 /\ g.C[RaidId].status = "active") =>
                   LET raid == g.C[RaidId]
                       after == raidCache'[RaidId]
                   IN /\ attackers'[a].result.done
                      /\ ~attackers'[a].result.success
                      /\ after.current_hp = raid.current_hp
                      /\ after.total_damage_dealt = raid.total_damage_dealt
                      /\ after.participants = raid.participants]_vars

\* C22: when a compensation raised, every executed step before the failed one
\* that has a compensation was still called, last first, and Saga.execute
\* ends with status failed by returning its result, the one flagged
\* critical_error
CompensationFailureCritical ==
    (saga.kind # "idle" /\ SagaEnded /\ saga.compensation_failed) =>
        /\ CallsOf("compensation") = CompensableBefore(saga.steps, saga.failed_step)
        /\ saga.status = "failed"
        /\ saga.pc = "returned"

(***************************************************************************)
(* The event bus (core/events.py).  bus holds _subscribers, a list of      *)
(* handlers for every event type that has a key, and _event_history.  An   *)
(* event is its type and the serial number of its publish call.  A handler *)
(* is a callable of the caller: "h1" returns, "bad" raises                 *)
(* ValueError, "once" unsubscribes itself from the event's type and        *)
(* returns.  publish is synchronous, so a call with the handlers it runs   *)
(* is one step; pub records the last call.                                 *)
(***************************************************************************)
EventTypes == {"mob_killed", "gold_changed"}

Handlers == {"h1", "bad", "once"}

\* publish calls made on one bus
MaxPublishes == 2

\* subscriptions held by one event type
MaxSubscribers == 2

\* publish calls made on the bus whose history is watched
MaxHistoryPublishes == 103

\* EventBus._max_history
MaxHistory == 100

\* list.remove(handler): the first occurrence goes; ValueError is ignored
RECURSIVE Remove(_, _)
Remove(list, x) ==
    IF list = <<>> THEN <<>>
    ELSE IF Head(list) = x THEN Tail(list)
    ELSE <<Head(list)>> \o Remove(Tail(list), x)

\* EventBus.subscribe
Subscribe(S, event_type, handler) ==
    IF event_type \in DOMAIN S
    THEN [S EXCEPT ![event_type] = Append(@, handler)]
    ELSE Put(S, event_type, <<handler>>)

\* EventBus.unsubscribe
Unsubscribe(S, event_type, handler) ==
    IF event_type \in DOMAIN S
    THEN [S EXCEPT ![event_type] = Remove(@, handler)]
    ELSE S

\* a plausible slip: the newest event is dropped
PopLast(history) == SubSeq(history, 1, Len(history) - 1)

\* self._event_history.pop(0)
PopFirst(history) == Tail(history)

\* publish, lines 286-288: the history after the event was added
AddToHistory(history, event) ==
    LET added == Append(history, event)
    IN IF Len(added) > MaxHistory THEN PopFirst(added) ELSE added

\* publish, lines 291-299: `for handler in handlers` walks the list object
\* itself by position i; calls are the handlers called so far.  An
\* exception of a handler is caught and the loop goes on.  The handler
\* "once" unsubscribes itself and "adds" subscribes "h1".  "again" subscribes
\* itself: every call of it appends an entry the loop has yet to reach, so
\* the loop does not end (terminated: FALSE, as of its first call)
RECURSIVE CallHandlers(_, _, _, _)
CallHandlers(S, event_type, i, calls) ==
    IF event_type \notin DOMAIN S \/ i > Len(S[event_type])
    THEN [S |-> S, calls |-> calls, terminated |-> TRUE]
    ELSE LET handler == S[event_type][i]
             after == IF handler = "once" THEN Unsubscribe(S, event_type, handler)
                      ELSE IF handler = "adds" THEN Subscribe(S, event_type, "h1")
                      ELSE IF handler = "again" THEN Subscribe(S, event_type, handler)
                      ELSE S
         IN IF handler = "again"
            THEN [S |-> after, calls |-> Append(calls, handler), terminated |-> FALSE]
            ELSE CallHandlers(after, event_type, i + 1, Append(calls, handler))

SubscribeCall(event_type, handler) ==
    /\ bus # <<>>
    /\ pub.terminated
    /\ event_type \in DOMAIN bus._subscribers => Len(bus._subscribers[event_type]) < MaxSubscribers
    /\ bus' = [bus EXCEPT !._subscribers = Subscribe(@, event_type, handler)]
    /\ pub' = [pub EXCEPT !.op = "subscribe", !.event_type = event_type, !.handler = handler]
    /\ UNCHANGED <<lockVars, execVars, storeVars, raidVars, sagaVars, txVars, bannerVars, schedVars>>

UnsubscribeCall(event_type, handler) ==
    /\ bus # <<>>
    /\ pub.terminated
    /\ bus' = [bus EXCEPT !._subscribers = Unsubscribe(@, event_type, handler)]
    /\ pub' = [pub EXCEPT !.op = "unsubscribe", !.event_type = event_type, !.handler = handler]
    /\ UNCHANGED <<lockVars, execVars, storeVars, raidVars, sagaVars, txVars, bannerVars, schedVars>>

\* EventBus.publish of a new event of the type, while fewer than max calls
\* were made
PublishCall(event_type, max) ==
    /\ bus # <<>>
    /\ pub.terminated
    /\ pub.n < max
    /\ LET event == [event_type |-> event_type, n |-> pub.n + 1]
           r == CallHandlers(bus._subscribers, event_type, 1, <<>>)
       IN /\ bus' = [_subscribers |-> r.S,
                     _event_history |-> AddToHistory(bus._event_history, event)]
          /\ pub' = [op |-> "publish", n |-> pub.n + 1, event_type |-> event_type,
                     handler |-> "None", calls |-> r.calls,
                     terminated |-> r.terminated]
    /\ UNCHANGED <<lockVars, execVars, storeVars, raidVars, sagaVars, txVars, bannerVars, schedVars>>

\* EventBus()
InitEvents ==
    /\ IdleExec
    /\ IdleStore
    /\ IdleRaid
    /\ IdleSaga
    /\ IdleTx
    /\ IdleBanner
    /\ IdleSched
    /\ bus = [_subscribers |-> EmptyMap, _event_history |-> <<>>]
    /\ pub = [op |-> "none", n |-> 0, event_type |-> "None", handler |-> "None",
              calls |-> <<>>, terminated |-> TRUE]

NextEvents ==
    \/ \E e \in EventTypes, h \in Handlers: SubscribeCall(e, h)
    \/ \E e \in EventTypes, h \in Handlers: UnsubscribeCall(e, h)
    \/ \E e \in EventTypes: PublishCall(e, MaxPublishes)

SpecEvents == InitEvents /\ [][NextEvents]_vars

\* the bus whose history is watched: events of one type, no subscriber
NextHistory == PublishCall("mob_killed", MaxHistoryPublishes)

SpecHistory == InitEvents /\ [][NextHistory]_vars

\* the handlers subscribed to the type
SubscribersOf(event_type) ==
    IF bus # <<>> /\ event_type \in DOMAIN bus._subscribers
    THEN bus._subscribers[event_type]
    ELSE <<>>

\* C23: a publish call invokes the handlers subscribed to the event's type,
\* every one of them and in subscription order, whether or not one of them
\* raises
PublishCallsAll ==
    [][\A e \in EventTypes:
          (pub'.op = "publish" /\ pub'.n # pub.n /\ pub'.event_type = e) =>
              pub'.calls = SubscribersOf(e)]_vars

\* how many times x occurs in the list
Count(list, x) == Cardinality({i \in 1..Len(list): list[i] = x})

\* C24: for every event type and handler, a subscribe call adds exactly one
\* subscription, an unsubscribe call removes exactly one or, where there is
\* none, changes nothing, and a publish call invokes the handler as many times
\* as it is subscribed
InvocationsMatchSubscriptions ==
    [][\A e \in EventTypes, h \in Handlers:
          LET before == SubscribersOf(e)
              after == SubscribersOf(e)'
              called == pub'.event_type = e /\ pub'.handler = h
          IN /\ (pub'.op = "subscribe" /\ called) =>
                    Count(after, h) = Count(before, h) + 1
             /\ (pub'.op = "unsubscribe" /\ called) =>
                    IF Count(before, h) = 0 THEN bus' = bus
                    ELSE Count(after, h) = Count(before, h) - 1
             /\ (pub'.op = "publish" /\ pub'.event_type = e) =>
                    Count(pub'.calls, h) = Count(before, h)]_vars

\* C25: the history never holds more than its capacity, and it is the most
\* recent published events in publish order
HistoryIsMostRecent ==
    bus # <<>> =>
        LET history == bus._event_history
        IN /\ Len(history) <= MaxHistory
           /\ Len(history) = Min(pub.n, MaxHistory)
           /\ \A i \in 1..Len(history): history[i].n = pub.n - Len(history) + i

\* more events were published than the history holds
OldestEvicted ==
    /\ bus # <<>>
    /\ pub.n > MaxHistory
    /\ Len(bus._event_history) = MaxHistory

\* handlers that change the subscriptions of the topic they are called for
ReentrantHandlers == {"h1", "once", "adds", "again"}

NextReentrant ==
    \/ \E e \in EventTypes, h \in ReentrantHandlers: SubscribeCall(e, h)
    \/ \E e \in EventTypes, h \in ReentrantHandlers: UnsubscribeCall(e, h)
    \/ \E e \in EventTypes: PublishCall(e, MaxPublishes)

SpecReentrant == InitEvents /\ [][NextReentrant]_vars

\* C38: a publish call ends, and it has invoked each handler once for each
\* subscription the handler had to the topic when the call began, and no
\* other handler, also where handlers subscribe or unsubscribe handlers of
\* the topic while they are invoked
PublishSnapshotsHandlers ==
    [][\A e \in EventTypes:
          (pub'.op = "publish" /\ pub'.n # pub.n /\ pub'.event_type = e) =>
              /\ pub'.terminated
              /\ \A h \in ReentrantHandlers:
                    Count(pub'.calls, h) = Count(SubscribersOf(e), h)]_vars

(***************************************************************************)
(* The scheduler (services/scheduler.py) and the asyncio tasks it creates. *)
(* coro[id] is the task of a _wrapped_task coroutine: pc is "new" until    *)
(* the event loop has run its first step, "sleeping" in asyncio.sleep,     *)
(* "callback" while the callback is suspended at an await of its own, and  *)
(* "done" at the end.  Task.cancel() sets must_cancel; the next step of    *)
(* the task then raises CancelledError where the coroutine stands, and a   *)
(* coroutine that has not started yet ends without running any of its      *)
(* code.  A callback of kind "quick" returns without suspending, "raises"  *)
(* raises ValueError, "slow" suspends once before it returns.  Time is     *)
(* counted in ticks; the 0.1 s that shutdown() sleeps are ShutdownWait.    *)
(***************************************************************************)
\* tasks scheduled on one scheduler
MaxTasks == 2

\* ticks of the clock
MaxTime == 3

\* shutdown: await asyncio.sleep(0.1)
ShutdownWait == 1

Delays == {0, 1, 2}

Callbacks == {[kind |-> k, banner_id |-> "None"]: k \in {"quick", "raises", "slow"}}

\* asyncio.create_task(coroutine) at the time now
NewTask(wrapper, callback, delay, interval) ==
    [wrapper |-> wrapper, callback |-> callback, created |-> now, delay |-> delay,
     interval |-> interval, pc |-> "new", due |-> 0, must_cancel |-> FALSE,
     cancelled |-> FALSE, starts |-> 0, ends |-> 0, last_start |-> 0]

\* SchedulerService.start
StartCall ==
    /\ sch # <<>>
    /\ ~sch._running
    /\ sch' = [sch EXCEPT !._running = TRUE, !.shutdown = "idle"]
    /\ UNCHANGED <<coro, now>>
    /\ UNCHANGED <<lockVars, execVars, storeVars, raidVars, sagaVars, txVars, bannerVars, eventVars>>

\* schedule_once and schedule_recurring, lines 176-208 and 236-279: the task
\* is created and entered in _tasks; a scheduler that is not running raises
Schedule(wrapper, callback, delay, interval) ==
    /\ sch # <<>>
    /\ sch._running
    /\ Len(coro) < MaxTasks
    /\ coro' = Append(coro, NewTask(wrapper, callback, delay, interval))
    /\ sch' = [sch EXCEPT !._tasks = @ \cup {Len(coro) + 1}, !._task_counter = @ + 1]

ScheduleOnce(callback, delay_seconds) ==
    /\ Schedule("once", callback, delay_seconds, 0)
    /\ UNCHANGED now
    /\ UNCHANGED <<lockVars, execVars, storeVars, raidVars, sagaVars, txVars, bannerVars, eventVars>>

ScheduleRecurring(callback, interval_seconds, first_delay) ==
    /\ Schedule("recurring", callback, first_delay, interval_seconds)
    /\ UNCHANGED now
    /\ UNCHANGED <<lockVars, execVars, storeVars, raidVars, sagaVars, txVars, bannerVars, eventVars>>

\* scheduled.task.cancel() on the tasks ids: a task that is done ignores it
CancelAll(C, ids) ==
    [id \in DOMAIN C |->
        IF id \in ids
        THEN [C[id] EXCEPT !.must_cancel = @ \/ C[id].pc # "done", !.cancelled = TRUE]
        ELSE C[id]]

\* cancel_task of a registered task, which returns True
CancelTask(task_id) ==
    /\ sch # <<>>
    /\ task_id \in sch._tasks
    /\ coro' = CancelAll(coro, {task_id})
    /\ UNCHANGED <<sch, now>>
    /\ UNCHANGED <<lockVars, execVars, storeVars, raidVars, sagaVars, txVars, bannerVars, eventVars>>

\* the event loop can run the task now
Ready(c) ==
    \/ c.pc = "new"
    \/ c.pc = "sleeping" /\ (c.must_cancel \/ c.due <= now)
    \/ c.pc = "callback" /\ c.must_cancel

\* `finally: self._tasks.pop(task_id, None)`, and the coroutine ends
Cleanup(c) == [c EXCEPT !.pc = "done", !.must_cancel = FALSE]

\* the callback has returned or raised
AfterCallback(c) ==
    IF c.wrapper = "recurring"
    THEN [c EXCEPT !.ends = @ + 1, !.pc = "sleeping", !.due = now + c.interval]
    ELSE Cleanup([c EXCEPT !.ends = @ + 1])

\* await callback(): up to its return, its exception or its first await
StartCallback(c) ==
    LET started == [c EXCEPT !.starts = @ + 1, !.last_start = now]
    IN IF c.callback.kind = "slow" THEN [started EXCEPT !.pc = "callback"]
       ELSE AfterCallback(started)

\* what the callback does to the banner manager
CallbackEffect(callback) ==
    IF callback.kind = "activate_banner"
    THEN LET r == ActivateBanner(banners, active_banner_id, callback.banner_id)
         IN [banners |-> r.banners, active |-> r.active]
    ELSE IF callback.kind = "expire_banner"
    THEN ExpireBanner(banners, active_banner_id, default_banner_id, callback.banner_id)
    ELSE [banners |-> banners, active |-> active_banner_id]

\* one step of the task: from where the coroutine stands to its next await
\* or its end.  A task of create_task(activate_callback()) has no wrapper
\* and is in no registry
TaskStep(id) ==
    /\ id \in DOMAIN coro
    /\ LET c == coro[id]
           runs == \/ c.pc = "sleeping" /\ ~c.must_cancel
                   \/ c.pc = "new" /\ c.wrapper = "bare"
           effect == IF runs THEN CallbackEffect(c.callback)
                     ELSE [banners |-> banners, active |-> active_banner_id]
           next == IF c.pc = "new"
                   THEN IF c.must_cancel THEN [c EXCEPT !.pc = "done", !.must_cancel = FALSE]
                        ELSE IF c.wrapper = "bare" THEN StartCallback(c)
                        ELSE [c EXCEPT !.pc = "sleeping", !.due = now + c.delay]
                   ELSE IF c.must_cancel THEN Cleanup(c)
                   ELSE IF c.pc = "sleeping" THEN StartCallback(c)
                   ELSE AfterCallback(c)
       IN /\ Ready(c) \/ c.pc = "callback"
          /\ coro' = [coro EXCEPT ![id] = next]
          /\ sch' = IF next.pc = "done" /\ c.pc # "new"
                    THEN [sch EXCEPT !._tasks = @ \ {id}]
                    ELSE sch
          /\ banners' = effect.banners
          /\ active_banner_id' = effect.active
    /\ UNCHANGED <<now, default_banner_id, scheduled>>
    /\ UNCHANGED <<lockVars, execVars, storeVars, raidVars, sagaVars, txVars, eventVars>>

\* shutdown(), lines 137-147: every registered task is cancelled; with an
\* empty registry the call returns at once, otherwise it sleeps
ShutdownCall ==
    /\ sch # <<>>
    /\ sch._running
    /\ sch.shutdown # "sleeping"
    /\ coro' = CancelAll(coro, sch._tasks)
    /\ sch' = IF sch._tasks = {}
              THEN [sch EXCEPT !._running = FALSE, !.shutdown = "returned"]
              ELSE [sch EXCEPT !.shutdown = "sleeping", !.wake = now + ShutdownWait]
    /\ UNCHANGED now
    /\ UNCHANGED <<lockVars, execVars, storeVars, raidVars, sagaVars, txVars, bannerVars, eventVars>>

\* shutdown(), lines 149-150: after the sleep
ShutdownReturn ==
    /\ sch # <<>>
    /\ sch.shutdown = "sleeping"
    /\ sch.wake <= now
    /\ sch' = [sch EXCEPT !._running = FALSE, !.shutdown = "returned"]
    /\ UNCHANGED <<coro, now>>
    /\ UNCHANGED <<lockVars, execVars, storeVars, raidVars, sagaVars, txVars, bannerVars, eventVars>>

\* time passes when the event loop has nothing to run
Tick(max) ==
    /\ sch # <<>>
    /\ now < max
    /\ \A id \in DOMAIN coro: ~Ready(coro[id])
    /\ ~(sch.shutdown = "sleeping" /\ sch.wake <= now)
    /\ now' = now + 1
    /\ UNCHANGED <<sch, coro>>
    /\ UNCHANGED <<lockVars, execVars, storeVars, raidVars, sagaVars, txVars, bannerVars, eventVars>>

\* SchedulerService()
NewScheduler ==
    [_tasks |-> {}, _running |-> FALSE, _task_counter |-> 0, shutdown |-> "idle", wake |-> 0]

InitSched ==
    /\ IdleExec
    /\ IdleStore
    /\ IdleRaid
    /\ IdleSaga
    /\ IdleTx
    /\ IdleBanner
    /\ IdleEvents
    /\ sch = NewScheduler
    /\ coro = <<>>
    /\ now = 0

NextSched ==
    \/ StartCall
    \/ \E cb \in Callbacks, d \in Delays: ScheduleOnce(cb, d)
    \/ \E cb \in Callbacks, d \in {0, 1}: ScheduleRecurring(cb, 1, d)
    \/ \E id \in 1..MaxTasks: CancelTask(id)
    \/ \E id \in 1..MaxTasks: TaskStep(id)
    \/ ShutdownCall
    \/ ShutdownReturn
    \/ Tick(MaxTime)

SpecSched == InitSched /\ [][NextSched]_vars

\* the one-time tasks of the scheduler
OneTimeTasks == {id \in DOMAIN coro: coro[id].wrapper = "once"}

\* C26: a one-time task runs its callback at most once and not before its
\* delay has elapsed; when the task has ended it is no longer in the registry
\* and, unless it was cancelled, its callback has run once; a task that was
\* cancelled before its callback started never runs it
OneTimeTaskRunsOnce ==
    /\ [](\A id \in OneTimeTasks:
            LET c == coro[id]
            IN /\ c.starts <= 1
               /\ c.starts = 1 => c.last_start >= c.created + c.delay
               /\ c.pc = "done" => id \notin sch._tasks
               /\ (c.pc = "done" /\ ~c.cancelled) => c.starts = 1)
    /\ [][\A id \in OneTimeTasks:
             coro[id].cancelled => coro'[id].starts = coro[id].starts]_vars

\* C27: a callback that is in flight when cancel_task is called runs to its
\* end, and no callback of a task starts after cancel_task has returned True
\* for it
CancelIsCooperative ==
    /\ [](\A id \in DOMAIN coro:
            coro[id].pc = "done" => coro[id].ends = coro[id].starts)
    /\ [][\A id \in DOMAIN coro:
             coro[id].cancelled => coro'[id].starts = coro[id].starts]_vars

\* C28: when shutdown() has returned the registry is empty, and no callback
\* starts until the scheduler is started again
ShutdownEmptiesRegistry ==
    /\ [](sch # <<>> /\ sch.shutdown = "returned" => sch._tasks = {})
    /\ [][(sch # <<>> /\ sch.shutdown = "returned" /\ sch'.shutdown = "returned") =>
             \A id \in DOMAIN coro: coro'[id].starts = coro[id].starts]_vars

(***************************************************************************)
(* A flash banner on the clock: create_flash_banner with the tasks it      *)
(* creates, on a started scheduler, next to a standard banner that may be  *)
(* created and made the default at any time.                               *)
(***************************************************************************)
\* ticks of the clock while a flash banner is watched
MaxFlashTime == 5

Durations == {1, 2}

\* a plausible slip: the expiration is due after the duration alone
DurationOnly(delay_before_start, duration_seconds) == duration_seconds

\* create_flash_banner, line 266: total_delay
TotalDelay(delay_before_start, duration_seconds) == delay_before_start + duration_seconds

\* create_flash_banner on a manager that has no flash banner yet: the banner
\* is created; its activation is a one-time task of the scheduler or, with no
\* delay, a task of its own; its expiration is a one-time task
CreateFlash(banner_id, duration_seconds, delay_before_start) ==
    /\ sch # <<>>
    /\ sch._running
    /\ coro = <<>>
    /\ banner_id \notin DOMAIN banners
    /\ banners' = Put(banners, banner_id, "scheduled")
    /\ LET activate == [kind |-> "activate_banner", banner_id |-> banner_id]
           expire == [kind |-> "expire_banner", banner_id |-> banner_id]
           total_delay == TotalDelay(delay_before_start, duration_seconds)
       IN IF delay_before_start > 0
          THEN /\ coro' = <<NewTask("once", activate, delay_before_start, 0),
                            NewTask("once", expire, total_delay, 0)>>
               /\ sch' = [sch EXCEPT !._tasks = {1, 2}, !._task_counter = @ + 2]
          ELSE /\ coro' = <<NewTask("bare", activate, 0, 0),
                            NewTask("once", expire, total_delay, 0)>>
               /\ sch' = [sch EXCEPT !._tasks = {2}, !._task_counter = @ + 1]
    /\ UNCHANGED <<now, active_banner_id, default_banner_id, scheduled>>
    /\ UNCHANGED <<lockVars, execVars, storeVars, raidVars, sagaVars, txVars, eventVars>>

InitFlash ==
    /\ IdleExec
    /\ IdleStore
    /\ IdleRaid
    /\ IdleSaga
    /\ IdleTx
    /\ IdleBanner
    /\ IdleEvents
    /\ sch = [NewScheduler EXCEPT !._running = TRUE]
    /\ coro = <<>>
    /\ now = 0

NextFlash ==
    \/ \E D \in Durations, d \in Delays: CreateFlash("flash", D, d)
    \/ CreateBanner("standard")
    \/ SetDefaultBanner("standard")
    \/ \E id \in 1..MaxTasks: TaskStep(id)
    \/ Tick(MaxFlashTime)

SpecFlash == InitFlash /\ [][NextFlash]_vars

\* C29: a flash banner is not active before its start delay has elapsed, is
\* the active banner from then until its duration has elapsed as well, and is
\* expired and not active afterwards; its activation runs before its
\* expiration
FlashBannerWindow ==
    \A a, e \in DOMAIN coro:
        (coro[a].callback.kind = "activate_banner" /\ coro[e].callback.kind = "expire_banner") =>
            LET b == coro[a].callback.banner_id
                start == coro[a].created + coro[a].delay
                end == coro[e].created + coro[e].delay
            IN /\ (now < start \/ coro[a].starts = 0) => banners[b] = "scheduled"
               /\ ((start < now /\ now < end) \/ (coro[a].starts = 1 /\ coro[e].starts = 0)) =>
                     GetActiveBanner = b
               /\ (now > end \/ coro[e].starts = 1) =>
                     (banners[b] = "expired" /\ GetActiveBanner # b)
               /\ coro[e].starts = 1 => coro[a].starts = 1
               /\ coro[a].starts = 1 => coro[a].last_start >= start
               /\ coro[e].starts = 1 => coro[e].last_start >= end

\* a delayed flash banner has expired and the default banner is active again
FlashExpiredToDefault ==
    /\ Len(coro) = 2
    /\ coro[1].wrapper = "once"
    /\ coro[2].starts = 1
    /\ banners["flash"] = "expired"
    /\ GetActiveBanner = "standard"

(***************************************************************************)
(* Referrals (adapters/sqlite_repository.py).  A player's row carries the  *)
(* id of its referrer under "referrer_id" and the list of the players it   *)
(* referred under "referrals"; both keys are absent until they are set.    *)
(***************************************************************************)
ReferralPlayers == {1, 2, 3}

\* the records players are registered with
PlayerData ==
    {[gold |-> 5]} \cup {[gold |-> 5, referrer_id |-> r]: r \in ReferralPlayers}

\* SQLiteRepository.get_referrer (0 stands for None)
GetReferrer(R, player_id) ==
    IF player_id \notin DOMAIN R THEN 0
    ELSE IF "referrer_id" \in DOMAIN Load(R, player_id)
    THEN Load(R, player_id)["referrer_id"]
    ELSE 0

\* SQLiteRepository.get_direct_referrals
GetDirectReferrals(R, player_id) ==
    IF player_id \notin DOMAIN R THEN <<>>
    ELSE IF "referrals" \in DOMAIN Load(R, player_id)
    THEN Load(R, player_id)["referrals"]
    ELSE <<>>

\* SQLiteRepository.add_referral: the table it leaves, the value it returns
\* and the exception it raises
AddReferral(R, referrer_id, referred_id) ==
    IF referrer_id \notin DOMAIN R \/ referred_id \notin DOMAIN R
    THEN [R |-> R, ret |-> FALSE, exc |-> "ValueError"]
    ELSE LET referrer == Load(R, referrer_id)
             referred == Load(R, referred_id)
         IN IF "referrer_id" \in DOMAIN referred
            THEN [R |-> R, ret |-> FALSE, exc |-> "none"]
            ELSE LET linked == Put(Put(referred, "referrer_id", referrer_id),
                                   "_version", VersionOf(referred) + 1)
                     s1 == Save(R, referred_id, linked)
                     referrals == IF "referrals" \in DOMAIN referrer
                                  THEN referrer["referrals"] ELSE <<>>
                     listed == Put(Put(referrer, "referrals", Append(referrals, referred_id)),
                                   "_version", VersionOf(referrer) + 1)
                     s2 == Save(s1.R, referrer_id, listed)
                 IN IF s1.exc # "none" THEN [R |-> R, ret |-> FALSE, exc |-> s1.exc]
                    ELSE IF referred_id \in Range(referrals)
                    THEN [R |-> s1.R, ret |-> TRUE, exc |-> "none"]
                    ELSE IF s2.exc # "none" THEN [R |-> s1.R, ret |-> FALSE, exc |-> s2.exc]
                    ELSE [R |-> s2.R, ret |-> TRUE, exc |-> "none"]

\* repository.save of the record of a new player
SavePlayerCall(player_id, data) ==
    /\ player_id \notin DOMAIN repo
    /\ repo' = Save(repo, player_id, data).R
    /\ call' = [op |-> "save", id |-> player_id, repoBefore |-> repo]
    /\ UNCHANGED <<stores, lockVars, execVars, raidVars, sagaVars, txVars, bannerVars, eventVars, schedVars>>

AddReferralCall(referrer_id, referred_id) ==
    /\ LET r == AddReferral(repo, referrer_id, referred_id)
       IN /\ repo' = r.R
          /\ call' = [op |-> "add_referral", referrer |-> referrer_id,
                      referred |-> referred_id, ret |-> r.ret, exc |-> r.exc,
                      repoBefore |-> repo]
    /\ UNCHANGED <<stores, lockVars, execVars, raidVars, sagaVars, txVars, bannerVars, eventVars, schedVars>>

InitReferral ==
    /\ IdleExec
    /\ IdleStore
    /\ IdleRaid
    /\ IdleSaga
    /\ IdleTx
    /\ IdleBanner
    /\ IdleEvents
    /\ IdleSched

NextReferral ==
    \/ \E p \in ReferralPlayers, data \in PlayerData: SavePlayerCall(p, data)
    \/ \E a, b \in ReferralPlayers: AddReferralCall(a, b)

SpecReferral == InitReferral /\ [][NextReferral]_vars

\* C33: add_referral on two existing players of which the referred one has
\* no referrer returns true and links them: get_referrer of the referred
\* is the referrer and the referred is among the referrer's direct
\* referrals; where the referred one has a referrer it returns false and
\* changes no record
AddReferralLinks ==
    (/\ call.op = "add_referral"
     /\ call.referrer \in DOMAIN call.repoBefore
     /\ call.referred \in DOMAIN call.repoBefore) =>
        IF GetReferrer(call.repoBefore, call.referred) = 0
        THEN /\ call.exc = "none"
             /\ call.ret
             /\ GetReferrer(repo, call.referred) = call.referrer
             /\ call.referred \in Range(GetDirectReferrals(repo, call.referrer))
        ELSE /\ call.exc = "none"
             /\ ~call.ret
             /\ repo = call.repoBefore

(***************************************************************************)
(* Callers whose id lists may name an id more than once, as the            *)
(* dependencies of a command whose attacker is its target do.              *)
(***************************************************************************)
\* the id lists, repetitions included
DupLists == UNION {[1..n -> Ids] : n \in 1..NumIds}

InitDup == InitCallersWith(1..NumOrderCallers, DupLists)

NextDup ==
    \/ \E t \in Tasks: AcquireStep(t)
    \/ \E t \in Tasks: AcquireWake(t)
    \/ \E t \in Tasks: AcquireTimeout(t)
    \/ \E t \in Tasks: Release(t)

SpecDup == InitDup /\ [][NextDup]_vars

\* C36: acquire takes the lock of an id that its list names more than once
\* a single time: no caller has an id twice among the locks it took, and no
\* caller waits for a lock it holds itself
DuplicateIdsTakenOnce ==
    \A t \in Tasks:
        /\ \A i, j \in DOMAIN acquired[t]: i # j => acquired[t][i] # acquired[t][j]
        /\ pc[t] = "waiting" =>
              \A i \in DOMAIN acquired[t]: lockOf[acquired[t][i]] # waitOn[t]

(***************************************************************************)
(* release called by a caller that holds no lock, next to callers that     *)
(* acquire and release their own.                                          *)
(***************************************************************************)
\* EntityLockManager.release(entity_ids) by a caller that holds nothing
ReleaseCall(entity_ids) ==
    /\ via = "lock"
    /\ lk' = ReleaseAll(lk, lockOf, entity_ids)
    /\ call' = [op |-> "release", ids |-> entity_ids, lkBefore |-> lk]
    /\ UNCHANGED <<lockOf, nLocks, pc, deps, idx, acquired, waitOn, err, execVars,
                   repo, stores, raidVars, sagaVars, txVars, bannerVars, eventVars, schedVars>>

InitRelease == InitCallers(1..NumOrderCallers)

NextRelease ==
    \/ \E t \in Tasks: AcquireStep(t)
    \/ \E t \in Tasks: AcquireWake(t)
    \/ \E t \in Tasks: AcquireTimeout(t)
    \/ \E t \in Tasks: Release(t)
    \/ \E ids \in DepLists: ReleaseCall(ids)

SpecRelease == InitRelease /\ [][NextRelease]_vars

\* C37: a release by a caller that holds none of the locks leaves every
\* lock that is held locked, and a release of ids that have no lock or whose
\* lock is not locked changes no lock
ReleaseByNonHolder ==
    [][(call' # call /\ call'.op = "release") =>
          /\ \A o \in DOMAIN lk: lk[o].locked => lk'[o].locked
          /\ (\A i \in DOMAIN call'.ids:
                 lockOf[call'.ids[i]] = 0 \/ ~lk[lockOf[call'.ids[i]]].locked)
                => lk' = lk]_vars

====
